---- MODULE Spec2Model ----
(***************************************************************************)
(* SmartSSH-SMBA: path mapping, reference scanning and the resolution      *)
(* pipeline of src/utils/path-utils.js, with the collaborators it calls.   *)
(*                                                                         *)
(* A JavaScript string is modelled as a sequence of one-character strings, *)
(* a null or undefined string as Null, a null or undefined object as       *)
(* NullObject, an undefined number as Undefined.                           *)
(***************************************************************************)
EXTENDS Integers, Sequences, FiniteSets, TLC

VARIABLES
    platform,   \* flavour of Node's path module: "posix" or "win32"
    serverList, \* config.serverList as cached by config-loader
    call,       \* the operation applied last, with its arguments
    ret,        \* what that operation returned
    pc,         \* where the running openPathFromText call is suspended
    frame,      \* the local variables of that call
    effects,    \* the calls made to the collaborators, in order
    files,      \* the local paths that are regular files
    dirs,       \* the local paths that are directories
    workspaceRoot, \* fsPath of the first workspace folder, Null if none
    globalValue,    \* serverList of the user settings of smartssh-smba.config
    workspaceValue, \* serverList of the workspace settings
    lastLoadTime,   \* 0: configCache is null; 1: it holds serverList
    terminals,      \* the terminal registry, in insertion order
    terminalCounter, \* the number of SSH terminals registered so far
    windowTerminals \* the terminals VS Code has open

pipeVars == <<pc, frame, effects, files, dirs, workspaceRoot>>
hostVars == <<globalValue, workspaceValue, lastLoadTime,
              terminals, terminalCounter, windowTerminals>>
vars == <<platform, serverList, call, ret, pipeVars, hostVars>>

Null == <<"null">>
NullObject == [nil |-> TRUE]
Undefined == -1

(***************************************************************************)
(* Characters and strings                                                  *)
(***************************************************************************)
LowerLetters == <<"a","b","c","d","e","f","g","h","i","j","k","l","m",
                  "n","o","p","q","r","s","t","u","v","w","x","y","z">>
UpperLetters == <<"A","B","C","D","E","F","G","H","I","J","K","L","M",
                  "N","O","P","Q","R","S","T","U","V","W","X","Y","Z">>
Digits == <<"0","1","2","3","4","5","6","7","8","9">>

Range(s) == {s[i] : i \in DOMAIN s}

IsLetter(c) == c \in Range(LowerLetters) \cup Range(UpperLetters)
IsDigit(c) == c \in Range(Digits)
IsSpace(c) == c \in {" ", "\t", "\n", "\r"}
IsWordChar(c) == IsLetter(c) \/ IsDigit(c) \/ c = "_"

\* String.prototype.toUpperCase on one character
ToUpperCase(c) ==
    IF c \in Range(LowerLetters)
    THEN UpperLetters[CHOOSE i \in DOMAIN LowerLetters : LowerLetters[i] = c]
    ELSE c

\* String.prototype.toLowerCase on one character
ToLowerCase(c) ==
    IF c \in Range(UpperLetters)
    THEN LowerLetters[CHOOSE i \in DOMAIN UpperLetters : UpperLetters[i] = c]
    ELSE c

\* s.substring(n) with a 0-based n
Substring(s, n) == IF n >= Len(s) THEN <<>> ELSE SubSeq(s, n + 1, Len(s))

\* s.startsWith(t)
StartsWith(s, t) == Len(t) <= Len(s) /\ SubSeq(s, 1, Len(t)) = t

\* s.endsWith(t)
EndsWith(s, t) ==
    Len(t) <= Len(s) /\ SubSeq(s, Len(s) - Len(t) + 1, Len(s)) = t

\* s.replace(/\\/g, '/')
ReplaceBackslashes(s) == [i \in DOMAIN s |-> IF s[i] = "\\" THEN "/" ELSE s[i]]

\* s.replace(/\/+/g, '/')
RECURSIVE CollapseSlashes(_)
CollapseSlashes(s) ==
    IF Len(s) <= 1 THEN s
    ELSE IF s[1] = "/" /\ s[2] = "/" THEN CollapseSlashes(Tail(s))
    ELSE <<s[1]>> \o CollapseSlashes(Tail(s))

\* s.replace(/^\/+/, '')
RECURSIVE StripLeadingSlashes(_)
StripLeadingSlashes(s) ==
    IF s # <<>> /\ s[1] = "/" THEN StripLeadingSlashes(Tail(s)) ELSE s

\* JavaScript truthiness of a string-or-null value
Truthy(s) == s # Null /\ s # <<>>

(***************************************************************************)
(* normalizePath                                                           *)
(***************************************************************************)
\* /^([a-zA-Z]):\\/i
DriveLetterMatch(p) ==
    Len(p) >= 3 /\ IsLetter(p[1]) /\ p[2] = ":" /\ p[3] = "\\"

\* normalizePath without the endsWith('/') test of line 71
normalizePath_AlwaysAppendsSlash(p) ==
    IF ~Truthy(p) THEN <<>>
    ELSE
      LET n1 == IF DriveLetterMatch(p)
                THEN <<ToUpperCase(p[1]), ":", "/">> \o Substring(p, 3)
                ELSE p
          n2 == ReplaceBackslashes(n1)
          n3 == IF StartsWith(n2, <<"/", "/">>)
                THEN <<"/", "/">> \o CollapseSlashes(Substring(n2, 2))
                ELSE CollapseSlashes(n2)
      IN n3 \o <<"/">>

\* normalizePath without the step that ensures the final '/'
normalizePath_NoFinalSlash(p) ==
    IF ~Truthy(p) THEN <<>>
    ELSE
      LET n1 == IF DriveLetterMatch(p)
                THEN <<ToUpperCase(p[1]), ":", "/">> \o Substring(p, 3)
                ELSE p
          n2 == ReplaceBackslashes(n1)
      IN IF StartsWith(n2, <<"/", "/">>)
         THEN <<"/", "/">> \o CollapseSlashes(Substring(n2, 2))
         ELSE CollapseSlashes(n2)

normalizePath(p) ==
    IF ~Truthy(p) THEN <<>>
    ELSE
      LET n1 == IF DriveLetterMatch(p)
                THEN <<ToUpperCase(p[1]), ":", "/">> \o Substring(p, 3)
                ELSE p
          n2 == ReplaceBackslashes(n1)
          n3 == IF StartsWith(n2, <<"/", "/">>)
                THEN <<"/", "/">> \o CollapseSlashes(Substring(n2, 2))
                ELSE CollapseSlashes(n2)
      IN IF EndsWith(n3, <<"/">>) THEN n3 ELSE n3 \o <<"/">>

(***************************************************************************)
(* Node's path.join, as called by convertRemotePathToLocal                 *)
(***************************************************************************)
\* the segments of s between separators, empty ones included
RECURSIVE SplitOn(_, _, _)
SplitOn(s, cur, seps) ==
    IF s = <<>> THEN <<cur>>
    ELSE IF s[1] \in seps THEN <<cur>> \o SplitOn(Tail(s), <<>>, seps)
    ELSE SplitOn(Tail(s), Append(cur, s[1]), seps)

\* normalizeString of lib/path.js on the list of segments: drops empty and
\* "." segments, resolves ".." against the segments kept so far
RECURSIVE ResolveSegments(_, _, _)
ResolveSegments(segs, res, allowAboveRoot) ==
    IF segs = <<>> THEN res
    ELSE LET g == segs[1] IN
      IF g = <<>> \/ g = <<".">>
      THEN ResolveSegments(Tail(segs), res, allowAboveRoot)
      ELSE IF g = <<".", ".">>
      THEN IF res # <<>> /\ res[Len(res)] # <<".", ".">>
           THEN ResolveSegments(Tail(segs), SubSeq(res, 1, Len(res) - 1), allowAboveRoot)
           ELSE IF allowAboveRoot
           THEN ResolveSegments(Tail(segs), Append(res, g), allowAboveRoot)
           ELSE ResolveSegments(Tail(segs), res, allowAboveRoot)
      ELSE ResolveSegments(Tail(segs), Append(res, g), allowAboveRoot)

RECURSIVE JoinSegments(_, _)
JoinSegments(segs, sep) ==
    IF segs = <<>> THEN <<>>
    ELSE IF Len(segs) = 1 THEN segs[1]
    ELSE segs[1] \o <<sep>> \o JoinSegments(Tail(segs), sep)

IsPathSeparator(c) == c = "/" \/ c = "\\"
PosixSeparators == {"/"}
Win32Separators == {"/", "\\"}

normalizeString(path, allowAboveRoot, sep, seps) ==
    JoinSegments(ResolveSegments(SplitOn(path, <<>>, seps), <<>>, allowAboveRoot), sep)

\* path.posix.normalize
PosixNormalize(path) ==
    IF path = <<>> THEN <<".">>
    ELSE
      LET isAbsolute == path[1] = "/"
          trailing == path[Len(path)] = "/"
          body == normalizeString(path, ~isAbsolute, "/", PosixSeparators)
          b2 == IF body = <<>>
                THEN (IF isAbsolute THEN <<>> ELSE IF trailing THEN <<".", "/">> ELSE <<".">>)
                ELSE IF trailing THEN body \o <<"/">> ELSE body
      IN IF body = <<>> /\ isAbsolute THEN <<"/">>
         ELSE IF isAbsolute THEN <<"/">> \o b2 ELSE b2

\* path.posix.join(a, b)
PosixJoin(a, b) ==
    IF a = <<>> /\ b = <<>> THEN <<".">>
    ELSE IF a = <<>> THEN PosixNormalize(b)
    ELSE IF b = <<>> THEN PosixNormalize(a)
    ELSE PosixNormalize(a \o <<"/">> \o b)

\* length of the run of path separators at the start of s
RECURSIVE LeadingSeparators(_)
LeadingSeparators(s) ==
    IF s # <<>> /\ IsPathSeparator(s[1]) THEN 1 + LeadingSeparators(Tail(s)) ELSE 0

\* length of the run of non-separators at the start of s
RECURSIVE LeadingNonSeparators(_)
LeadingNonSeparators(s) ==
    IF s # <<>> /\ ~IsPathSeparator(s[1]) THEN 1 + LeadingNonSeparators(Tail(s)) ELSE 0

\* path.win32.normalize
Win32Normalize(path) ==
    LET len == Len(path) IN
    IF len = 0 THEN <<".">>
    ELSE IF len = 1 THEN (IF path[1] = "/" THEN <<"\\">> ELSE path)
    ELSE
      LET \* UNC root: two separators, a server, separators, a share
          afterTwo == Substring(path, 2)
          n1 == LeadingNonSeparators(afterTwo)
          j1 == 2 + n1
          s1 == LeadingSeparators(Substring(path, j1))
          j2 == j1 + s1
          n2 == LeadingNonSeparators(Substring(path, j2))
          j3 == j2 + n2
          isUnc == /\ IsPathSeparator(path[1]) /\ IsPathSeparator(path[2])
                   /\ n1 > 0 /\ j1 < len /\ j2 < len
          uncRootOnly == isUnc /\ j3 = len
          uncDevice == <<"\\", "\\">> \o SubSeq(path, 3, j1) \o <<"\\">>
                       \o SubSeq(path, j2 + 1, j3)
          isDrive == ~IsPathSeparator(path[1]) /\ IsLetter(path[1]) /\ path[2] = ":"
          driveAbs == isDrive /\ len > 2 /\ IsPathSeparator(path[3])
          isAbsolute == IsPathSeparator(path[1]) \/ driveAbs
          hasDevice == isUnc \/ isDrive
          device == IF isUnc THEN uncDevice ELSE SubSeq(path, 1, 2)
          rootEnd == IF IsPathSeparator(path[1])
                     THEN (IF IsPathSeparator(path[2])
                           THEN (IF isUnc THEN j3 ELSE 0)
                           ELSE 1)
                     ELSE IF driveAbs THEN 3
                     ELSE IF isDrive THEN 2
                     ELSE 0
          t0 == IF rootEnd < len
                THEN normalizeString(Substring(path, rootEnd), ~isAbsolute, "\\", Win32Separators)
                ELSE <<>>
          t1 == IF t0 = <<>> /\ ~isAbsolute THEN <<".">> ELSE t0
          tail == IF t1 # <<>> /\ IsPathSeparator(path[len]) THEN t1 \o <<"\\">> ELSE t1
      IN IF uncRootOnly THEN uncDevice \o <<"\\">>
         ELSE IF ~hasDevice
         THEN (IF isAbsolute THEN <<"\\">> \o tail ELSE tail)
         ELSE (IF isAbsolute THEN device \o <<"\\">> \o tail ELSE device \o tail)

\* path.win32.join(a, b)
Win32Join(a, b) ==
    IF a = <<>> /\ b = <<>> THEN <<".">>
    ELSE
      LET firstPart == IF a = <<>> THEN b ELSE a
          joined == IF a = <<>> THEN b
                    ELSE IF b = <<>> THEN a
                    ELSE a \o <<"\\">> \o b
          \* exactly two separators and then something else: a UNC path
          looksUnc == /\ Len(firstPart) > 2
                      /\ IsPathSeparator(firstPart[1])
                      /\ IsPathSeparator(firstPart[2])
                      /\ ~IsPathSeparator(firstPart[3])
          slashCount == LeadingSeparators(joined)
          fixed == IF ~looksUnc /\ slashCount >= 2
                   THEN <<"\\">> \o Substring(joined, slashCount)
                   ELSE joined
      IN Win32Normalize(fixed)

\* path.join under the platform the extension host runs on
PathJoin(pf, a, b) == IF pf = "win32" THEN Win32Join(a, b) ELSE PosixJoin(a, b)

(***************************************************************************)
(* Path mappings of a server                                               *)
(*   server:  [name, pathMappings (a sequence, empty when absent),         *)
(*             smbMapping (a mapping, or NullObject when absent)]          *)
(*   mapping: [localPath, remotePath]                                      *)
(***************************************************************************)
getPathMappings(server) ==
    IF server = NullObject THEN <<>>
    ELSE
      LET fromList == server.pathMappings
          legacy == server.smbMapping
      IN IF legacy # NullObject /\ Truthy(legacy.localPath) /\ Truthy(legacy.remotePath)
         THEN Append(fromList, legacy)
         ELSE fromList

\* lines 243-251: the local path a remote path gets through one mapping
LocalThroughMapping(pf, normalizedRemotePath, mapping) ==
    LET remotePathPrefix == normalizePath(mapping.remotePath)
        relativePath == Substring(normalizedRemotePath, Len(remotePathPrefix))
        localPathPrefix == normalizePath(mapping.localPath)
    IN normalizePath(PathJoin(pf, localPathPrefix, relativePath))

\* the for loop of convertRemotePathToLocal, from mapping i on
RECURSIVE RemoteToLocalLoop(_, _, _, _)
RemoteToLocalLoop(pf, normalizedRemotePath, pathMappings, i) ==
    IF i > Len(pathMappings) THEN Null
    ELSE IF StartsWith(normalizedRemotePath, normalizePath(pathMappings[i].remotePath))
    THEN LocalThroughMapping(pf, normalizedRemotePath, pathMappings[i])
    ELSE RemoteToLocalLoop(pf, normalizedRemotePath, pathMappings, i + 1)

convertRemotePathToLocal(pf, remotePath, server) ==
    IF ~Truthy(remotePath) \/ server = NullObject THEN Null
    ELSE IF getPathMappings(server) = <<>> THEN Null
    ELSE RemoteToLocalLoop(pf, normalizePath(remotePath), getPathMappings(server), 1)

\* lines 313-344: the remote path a local path gets through one mapping
RemoteThroughMapping(normalizedLocalPath, mapping) ==
    LET localPathPrefix == normalizePath(mapping.localPath)
        relativePath == StripLeadingSlashes(
                            Substring(normalizedLocalPath, Len(localPathPrefix)))
        prefix0 == normalizePath(mapping.remotePath)
        remotePathPrefix == IF EndsWith(prefix0, <<"/">>)
                            THEN SubSeq(prefix0, 1, Len(prefix0) - 1)
                            ELSE prefix0
        remotePath == CollapseSlashes(ReplaceBackslashes(
                          remotePathPrefix \o <<"/">> \o relativePath))
    IN IF remotePath = <<"/", "/">> \/ remotePath = <<"/", ".", "/">>
       THEN <<"/">>
       ELSE remotePath

\* convertLocalPathToRemote choosing, among the matching mappings from i on,
\* the one with the longest normalized localPath instead of the first
LocalToRemoteLoop_LongestPrefix(normalizedLocalPath, pathMappings, i) ==
    LET matching == {k \in i..Len(pathMappings) :
                        StartsWith(normalizedLocalPath,
                                   normalizePath(pathMappings[k].localPath))}
        best == CHOOSE k \in matching : \A j \in matching :
                    \/ Len(normalizePath(pathMappings[j].localPath))
                          < Len(normalizePath(pathMappings[k].localPath))
                    \/ /\ Len(normalizePath(pathMappings[j].localPath))
                            = Len(normalizePath(pathMappings[k].localPath))
                       /\ k <= j
    IN IF matching = {} THEN Null
       ELSE RemoteThroughMapping(normalizedLocalPath, pathMappings[best])

\* convertLocalPathToRemote translating through the first mapping when no
\* prefix matches
LocalToRemoteLoop_FallsBackToFirst(normalizedLocalPath, pathMappings, i) ==
    IF \E k \in i..Len(pathMappings) :
          StartsWith(normalizedLocalPath, normalizePath(pathMappings[k].localPath))
    THEN LocalToRemoteLoop_LongestPrefix(normalizedLocalPath, pathMappings, i)
    ELSE RemoteThroughMapping(normalizedLocalPath, pathMappings[1])

\* the for loop of convertLocalPathToRemote, from mapping i on
RECURSIVE LocalToRemoteLoop(_, _, _)
LocalToRemoteLoop(normalizedLocalPath, pathMappings, i) ==
    IF i > Len(pathMappings) THEN Null
    ELSE IF StartsWith(normalizedLocalPath, normalizePath(pathMappings[i].localPath))
    THEN RemoteThroughMapping(normalizedLocalPath, pathMappings[i])
    ELSE LocalToRemoteLoop(normalizedLocalPath, pathMappings, i + 1)

convertLocalPathToRemote(localPath, server) ==
    IF ~Truthy(localPath) \/ server = NullObject THEN Null
    ELSE IF getPathMappings(server) = <<>> THEN Null
    ELSE LocalToRemoteLoop(normalizePath(localPath), getPathMappings(server), 1)

(***************************************************************************)
(* Server matching                                                         *)
(***************************************************************************)
\* config-loader getServerList: a usable smbMapping that is not yet among
\* the server's pathMappings is pushed onto them, in the cached objects
MergeLegacyMapping(server) ==
    LET legacy == server.smbMapping IN
    IF legacy # NullObject /\ Truthy(legacy.localPath) /\ Truthy(legacy.remotePath)
    THEN LET list == server.pathMappings
             copy == [localPath |-> legacy.localPath, remotePath |-> legacy.remotePath]
         IN [server EXCEPT !.pathMappings =
                IF \E k \in DOMAIN list : list[k] = copy THEN list ELSE Append(list, copy)]
    ELSE server

getServerList(list) == [k \in DOMAIN list |-> MergeLegacyMapping(list[k])]

\* the inner loop of findServerForPath: does some mapping, from i on, match
RECURSIVE AnyMappingMatches(_, _, _)
AnyMappingMatches(normalizedFilePath, pathMappings, i) ==
    IF i > Len(pathMappings) THEN FALSE
    ELSE IF StartsWith(normalizedFilePath, normalizePath(pathMappings[i].localPath))
    THEN TRUE
    ELSE AnyMappingMatches(normalizedFilePath, pathMappings, i + 1)

\* the outer loop of findServerForPath, from server k on; the result is the
\* position of the returned server in the list, 0 for null
NoServer == 0

RECURSIVE FindServerLoop(_, _, _)
FindServerLoop(normalizedFilePath, servers, k) ==
    IF k > Len(servers) THEN NoServer
    ELSE IF AnyMappingMatches(normalizedFilePath, getPathMappings(servers[k]), 1)
    THEN k
    ELSE FindServerLoop(normalizedFilePath, servers, k + 1)

findServerForPath(filePath, servers) ==
    IF ~Truthy(filePath) THEN NoServer
    ELSE IF servers = <<>> THEN NoServer
    ELSE FindServerLoop(normalizePath(filePath), servers, 1)

\* the inner loop of findServerForPathDetailed: the position of the first
\* mapping, from i on, whose prefix begins the path; 0 if there is none
RECURSIVE FirstMatchingMapping(_, _, _)
FirstMatchingMapping(normalizedFilePath, pathMappings, i) ==
    IF i > Len(pathMappings) THEN 0
    ELSE IF StartsWith(normalizedFilePath, normalizePath(pathMappings[i].localPath))
    THEN i
    ELSE FirstMatchingMapping(normalizedFilePath, pathMappings, i + 1)

\* the outer loop of findServerForPathDetailed, from server k on: the
\* positions of the returned server and mapping, NullObject for null
RECURSIVE FindDetailedLoop(_, _, _)
FindDetailedLoop(normalizedFilePath, servers, k) ==
    IF k > Len(servers) THEN NullObject
    ELSE IF FirstMatchingMapping(normalizedFilePath, getPathMappings(servers[k]), 1) # 0
    THEN [server |-> k,
          mapping |-> FirstMatchingMapping(normalizedFilePath,
                                           getPathMappings(servers[k]), 1)]
    ELSE FindDetailedLoop(normalizedFilePath, servers, k + 1)

findServerForPathDetailed(filePath, servers) ==
    IF ~Truthy(filePath) THEN NullObject
    ELSE IF servers = <<>> THEN NullObject
    ELSE FindDetailedLoop(normalizePath(filePath), servers, 1)

(***************************************************************************)
(* findPotentialPaths: the URL pre-pass and the four path grammars         *)
(*                                                                         *)
(* Positions i are 1-based positions in the text; the index, end and       *)
(* startIndex fields hold JavaScript's 0-based indices.  A match is        *)
(* [index, end, path, lineStr, colStr] with end exclusive and Null for a   *)
(* capture group that did not take part; NullObject is "no match".         *)
(***************************************************************************)
EndOfText == ""

At(text, i) == IF i >= 1 /\ i <= Len(text) THEN text[i] ELSE EndOfText

\* [^:\s()"']
IsPathChar(c) ==
    c # EndOfText /\ ~IsSpace(c) /\ c \notin {":", "(", ")", "\"", "'"}

\* [^\s]
IsNonSpace(c) == c # EndOfText /\ ~IsSpace(c)

\* [^\s/$.?#]
IsUrlFirstChar(c) == IsNonSpace(c) /\ c \notin {"/", "$", ".", "?", "#"}

\* . (any character but a line terminator)
IsAnyChar(c) == c # EndOfText /\ c \notin {"\n", "\r"}

RECURSIVE PathCharRun(_, _)
PathCharRun(text, i) ==
    IF IsPathChar(At(text, i)) THEN 1 + PathCharRun(text, i + 1) ELSE 0

RECURSIVE DigitRun(_, _)
DigitRun(text, i) ==
    IF IsDigit(At(text, i)) THEN 1 + DigitRun(text, i + 1) ELSE 0

RECURSIVE SpaceRun(_, _)
SpaceRun(text, i) ==
    IF IsSpace(At(text, i)) THEN 1 + SpaceRun(text, i + 1) ELSE 0

RECURSIVE NonSpaceRun(_, _)
NonSpaceRun(text, i) ==
    IF IsNonSpace(At(text, i)) THEN 1 + NonSpaceRun(text, i + 1) ELSE 0

\* the literal lit at position i, letter case ignored (flag i)
LiteralAtIgnoreCase(text, i, lit) ==
    \A k \in DOMAIN lit : ToLowerCase(At(text, i + k - 1)) = lit[k]

\* the literal lit at position i
LiteralAt(text, i, lit) == \A k \in DOMAIN lit : At(text, i + k - 1) = lit[k]

\* text.substring(i - 1, i - 1 + n) for a 1-based position i
Slice(text, i, n) == SubSeq(text, i, i + n - 1)

\* parseInt(digits, 10)
RECURSIVE ParseInt(_)
ParseInt(ds) ==
    IF ds = <<>> THEN 0
    ELSE 10 * ParseInt(SubSeq(ds, 1, Len(ds) - 1))
           + (CHOOSE d \in 0..9 : Digits[d + 1] = ds[Len(ds)])

\* (?:\b(?:https?|ftp|file):\/\/|www\.) at position i: its length, 0 if it
\* does not match there
UrlSchemes == << <<"h","t","t","p","s",":","/","/">>,
                 <<"h","t","t","p",":","/","/">>,
                 <<"f","t","p",":","/","/">>,
                 <<"f","i","l","e",":","/","/">> >>

UrlPrefixLen(text, i) ==
    LET boundary == ~IsWordChar(At(text, i - 1))
        schemes == {k \in DOMAIN UrlSchemes :
                       LiteralAtIgnoreCase(text, i, UrlSchemes[k])}
    IN IF boundary /\ schemes # {}
       THEN Len(UrlSchemes[CHOOSE k \in schemes : \A j \in schemes : k <= j])
       ELSE IF LiteralAtIgnoreCase(text, i, <<"w", "w", "w", ".">>) THEN 4
       ELSE 0

\* urlPattern at position i: the 0-based end of the match, -1 if none
UrlMatchEnd(text, i) ==
    LET n == UrlPrefixLen(text, i) IN
    IF /\ n > 0
       /\ IsUrlFirstChar(At(text, i + n))
       /\ IsAnyChar(At(text, i + n + 1))
    THEN i + n + 1 + NonSpaceRun(text, i + n + 2)
    ELSE -1

\* the loop of lines 529-533 from position i on: every index a URL covers
RECURSIVE UrlIndices(_, _)
UrlIndices(text, i) ==
    IF i > Len(text) THEN {}
    ELSE IF UrlMatchEnd(text, i) = -1 THEN UrlIndices(text, i + 1)
    ELSE (i - 1)..(UrlMatchEnd(text, i) - 1)
            \cup UrlIndices(text, UrlMatchEnd(text, i) + 1)

\* (?::(\d+))? at position i: the digits taken, Null if the group is skipped
OptionalNumber(text, i) ==
    IF At(text, i) = ":" /\ DigitRun(text, i + 1) > 0
    THEN Slice(text, i + 1, DigitRun(text, i + 1))
    ELSE Null

NumberLen(digits) == IF digits = Null THEN 0 ELSE 1 + Len(digits)

\* a path head of headLen characters at position i, a run of path
\* characters, then (?::(\d+))?(?::(\d+))?: the unix and relative patterns
PathWithSuffixAt(text, i, headLen) ==
    LET run == PathCharRun(text, i + headLen)
        e1 == i + headLen + run
        lineStr == OptionalNumber(text, e1)
        e2 == e1 + NumberLen(lineStr)
        colStr == OptionalNumber(text, e2)
        e3 == e2 + NumberLen(colStr)
    IN IF headLen = 0 \/ run = 0 THEN NullObject
       ELSE [index |-> i - 1, end |-> e3 - 1, path |-> Slice(text, i, headLen + run),
             lineStr |-> lineStr, colStr |-> colStr]

\* ((?:\/|~\/)[^:\s()"']+)(?::(\d+))?(?::(\d+))?
UnixMatchAt(text, i) ==
    PathWithSuffixAt(text, i,
        IF At(text, i) = "/" THEN 1
        ELSE IF At(text, i) = "~" /\ At(text, i + 1) = "/" THEN 2
        ELSE 0)

\* ((?:\.{1,2}\/)[^:\s()"']+)(?::(\d+))?(?::(\d+))?
RelativeMatchAt(text, i) ==
    PathWithSuffixAt(text, i,
        IF At(text, i) = "." /\ At(text, i + 1) = "." /\ At(text, i + 2) = "/" THEN 3
        ELSE IF At(text, i) = "." /\ At(text, i + 1) = "/" THEN 2
        ELSE 0)

\* the token and (line[,column]): of the cmake pattern, the token at t
CmakeTokenAt(text, i, t) ==
    LET run == PathCharRun(text, t)
        open == t + run
        d1 == DigitRun(text, open + 1)
        e1 == open + 1 + d1
        d2 == IF At(text, e1) = "," THEN DigitRun(text, e1 + 1) ELSE 0
        e2 == IF d2 > 0 THEN e1 + 1 + d2 ELSE e1
    IN IF /\ run > 0
          /\ At(text, open) = "("
          /\ d1 > 0
          /\ At(text, e2) = ")"
          /\ At(text, e2 + 1) = ":"
       THEN [index |-> i - 1, end |-> e2 + 1, path |-> Slice(text, t, run),
             lineStr |-> Slice(text, open + 1, d1),
             colStr |-> IF d2 > 0 THEN Slice(text, e1 + 1, d2) ELSE Null]
       ELSE NullObject

\* (?:^|\s)([^:\s()"']+(?:\.(?:cpp|...))?)(?:\((\d+)(?:,(\d+))?\)):
CmakeMatchAt(text, i) ==
    IF i = 1 /\ CmakeTokenAt(text, i, i) # NullObject THEN CmakeTokenAt(text, i, i)
    ELSE IF IsSpace(At(text, i)) THEN CmakeTokenAt(text, i, i + 1)
    ELSE NullObject

MakeWords == {<<"e","r","r","o","r">>, <<"w","a","r","n","i","n","g">>,
              <<"n","o","t","e">>}

\* the tail of the make pattern taking whitespace alone for a match
MakeTailEnd_WhitespaceSuffices(text, q) ==
    IF SpaceRun(text, q) > 0 THEN q + SpaceRun(text, q)
    ELSE IF q = Len(text) + 1 THEN q
    ELSE 0

\* (?:\s+(?:error|warning|note):|$) at position q: the position after it,
\* 0 if it does not match
MakeTailEnd(text, q) ==
    LET w == SpaceRun(text, q)
        words == {x \in MakeWords : LiteralAt(text, q + w, x \o <<":">>)}
    IN IF w > 0 /\ words # {}
       THEN q + w + Len(CHOOSE x \in words : TRUE) + 1
       ELSE IF q = Len(text) + 1 THEN q
       ELSE 0

\* the token, :line[:column]: and the tail of the make pattern, the token at t
MakeTokenAt(text, i, t) ==
    LET run == PathCharRun(text, t)
        c1 == t + run
        d1 == IF At(text, c1) = ":" THEN DigitRun(text, c1 + 1) ELSE 0
        e1 == c1 + 1 + d1
        d2 == IF At(text, e1) = ":" THEN DigitRun(text, e1 + 1) ELSE 0
        e2 == IF d2 > 0 THEN e1 + 1 + d2 ELSE e1
        tailEnd == IF At(text, e2) = ":" THEN MakeTailEnd(text, e2 + 1) ELSE 0
    IN IF run > 0 /\ d1 > 0 /\ tailEnd > 0
       THEN [index |-> i - 1, end |-> tailEnd - 1, path |-> Slice(text, t, run),
             lineStr |-> Slice(text, c1 + 1, d1),
             colStr |-> IF d2 > 0 THEN Slice(text, e1 + 1, d2) ELSE Null]
       ELSE NullObject

\* (?:^|\s)((?:\.{1,2}\/)?[^:\s()"']+(?:\.(?:cpp|...))?)(?::(\d+)(?::(\d+))?):
\*     (?:\s+(?:error|warning|note):|$)
MakeMatchAt(text, i) ==
    IF i = 1 /\ MakeTokenAt(text, i, i) # NullObject THEN MakeTokenAt(text, i, i)
    ELSE IF IsSpace(At(text, i)) THEN MakeTokenAt(text, i, i + 1)
    ELSE NullObject

PatternTypes == <<"unix", "cmake", "make", "relative">>

MatchAt(type, text, i) ==
    CASE type = "unix" -> UnixMatchAt(text, i)
      [] type = "cmake" -> CmakeMatchAt(text, i)
      [] type = "make" -> MakeMatchAt(text, i)
      [] type = "relative" -> RelativeMatchAt(text, i)

\* while ((match = pattern.exec(text)) !== null): the matches of one
\* pattern from position i on, each search resuming where the last ended
RECURSIVE ExecAll(_, _, _)
ExecAll(type, text, i) ==
    IF i > Len(text) + 1 THEN <<>>
    ELSE IF MatchAt(type, text, i) = NullObject THEN ExecAll(type, text, i + 1)
    ELSE <<MatchAt(type, text, i)>>
            \o ExecAll(type, text, MatchAt(type, text, i).end + 1)

\* isPartOfUrl looking only at the index where the match starts
IsPartOfUrl_StartOnly(m, urlMatches) == m.index \in urlMatches

\* lines 564-570
IsPartOfUrl(m, urlMatches) == \E k \in m.index..(m.end - 1) : k \in urlMatches

\* lines 577-607: the reference pushed for a match
Reference(m, type) ==
    [path |-> m.path,
     startIndex |-> m.index,
     length |-> m.end - m.index,
     line |-> IF m.lineStr # Null THEN ParseInt(m.lineStr) ELSE Undefined,
     column |-> IF m.colStr # Null THEN ParseInt(m.colStr) ELSE Undefined,
     type |-> type,
     isUnix |-> StartsWith(m.path, <<"/">>) \/ StartsWith(m.path, <<"~", "/">>),
     isRelative |-> StartsWith(m.path, <<".", "/">>)
                      \/ StartsWith(m.path, <<".", ".", "/">>)]

\* the references one pattern contributes
RECURSIVE References(_, _, _)
References(ms, type, urlMatches) ==
    IF ms = <<>> THEN <<>>
    ELSE IF IsPartOfUrl(ms[1], urlMatches)
    THEN References(Tail(ms), type, urlMatches)
    ELSE <<Reference(ms[1], type)>> \o References(Tail(ms), type, urlMatches)

\* for (const { pattern, type } of patterns), from pattern k on
RECURSIVE PatternLoop(_, _, _)
PatternLoop(text, urlMatches, k) ==
    IF k > Len(PatternTypes) THEN <<>>
    ELSE References(ExecAll(PatternTypes[k], text, 1), PatternTypes[k], urlMatches)
            \o PatternLoop(text, urlMatches, k + 1)

findPotentialPaths(text) == PatternLoop(text, UrlIndices(text, 1), 1)

(***************************************************************************)
(* processPathsFromText and the collaborators of openPathFromText          *)
(***************************************************************************)
RECURSIVE StripTrailing(_, _)
StripTrailing(s, seps) ==
    IF s # <<>> /\ s[Len(s)] \in seps
    THEN StripTrailing(SubSeq(s, 1, Len(s) - 1), seps)
    ELSE s

RECURSIVE LastSegment(_, _)
LastSegment(s, seps) ==
    IF s = <<>> \/ s[Len(s)] \in seps THEN <<>>
    ELSE Append(LastSegment(SubSeq(s, 1, Len(s) - 1), seps), s[Len(s)])

Separators(pf) == IF pf = "win32" THEN Win32Separators ELSE PosixSeparators

\* path.basename
Basename(pf, p) == LastSegment(StripTrailing(p, Separators(pf)), Separators(pf))

\* originalPath.replace(/^\.\//, '')
StripDotSlash(p) == IF StartsWith(p, <<".", "/">>) THEN Substring(p, 2) ELSE p

\* lines 668-679: the remote path a reference stands for; a relative one is
\* joined to the connection's working directory, if it has one
RemotePathOf(ref, server) ==
    IF ref.isUnix \/ ~ref.isRelative THEN ref.path
    ELSE IF Truthy(server.currentWorkingDirectory)
    THEN PosixJoin(server.currentWorkingDirectory, ref.path)
    ELSE Null

\* the workspace root tried for every relative reference, whatever the
\* working directory gave
WorkspaceFallback_WorkspaceFirst(pf, ref, wsRoot, localPath) ==
    IF ~ref.isUnix /\ ref.isRelative /\ Truthy(wsRoot)
    THEN PathJoin(pf, wsRoot, StripDotSlash(ref.path))
    ELSE localPath

\* lines 682-691: a relative reference the mappings gave no local path is
\* taken below the workspace root
WorkspaceFallback(pf, ref, wsRoot, localPath) ==
    IF ~ref.isUnix /\ ref.isRelative /\ ~Truthy(localPath) /\ Truthy(wsRoot)
    THEN PathJoin(pf, wsRoot, StripDotSlash(ref.path))
    ELSE localPath

\* lines 654-709: the reference with the local path found for it
WithLocalPath(pf, ref, server, wsRoot) ==
    [path |-> ref.path,
     startIndex |-> ref.startIndex,
     length |-> ref.length,
     line |-> ref.line,
     column |-> ref.column,
     type |-> ref.type,
     isUnix |-> ref.isUnix,
     isRelative |-> ref.isRelative,
     localPath |-> IF ~Truthy(ref.path) THEN Null
                   ELSE WorkspaceFallback(pf, ref, wsRoot,
                            convertRemotePathToLocal(pf, RemotePathOf(ref, server),
                                                     server))]

\* pathResults.map(...)
MapLocalPaths(pf, pathResults, server, wsRoot) ==
    [k \in DOMAIN pathResults |-> WithLocalPath(pf, pathResults[k], server, wsRoot)]

\* every reference carries localPath, Null where none could be produced
processPathsFromText(pf, text, server, wsRoot) ==
    IF ~Truthy(text) \/ server = NullObject THEN <<>>
    ELSE MapLocalPaths(pf, findPotentialPaths(text), server, wsRoot)

Min(S) == CHOOSE x \in S : \A y \in S : x <= y

\* processedPaths.find(p => p.localPath): its position, 0 if there is none
FirstWithLocalPath(paths) ==
    IF \E k \in DOMAIN paths : Truthy(paths[k].localPath)
    THEN Min({k \in DOMAIN paths : Truthy(paths[k].localPath)})
    ELSE 0

\* the name under which the filesystem knows a path: separators unified on
\* win32, trailing separators dropped
FsName(pf, p) ==
    LET q == IF pf = "win32" THEN ReplaceBackslashes(p) ELSE p
    IN IF StripTrailing(q, {"/"}) = <<>> /\ q # <<>> THEN <<"/">>
       ELSE StripTrailing(q, {"/"})

\* what fs.promises.stat reports for p, as checkPathExists returns it; stat
\* of a regular file named with a trailing separator fails on posix, and on
\* win32 succeeds or fails with the version of the runtime
StatOutcomes(pf, p, fileSet, dirSet) ==
    LET absent == [exists |-> FALSE, isDirectory |-> FALSE]
        file == [exists |-> TRUE, isDirectory |-> FALSE]
        dir == [exists |-> TRUE, isDirectory |-> TRUE]
        trailing == p # <<>> /\ p[Len(p)] \in Separators(pf)
    IN IF FsName(pf, p) \in dirSet THEN {dir}
       ELSE IF FsName(pf, p) \in fileSet
       THEN (IF ~trailing THEN {file}
             ELSE IF pf = "win32" THEN {file, absent}
             ELSE {absent})
       ELSE {absent}

\* new vscode.Position(line - 1, column || 0) of openFileInEditor and
\* searchAndOpenFile, NullObject when no line is given
CursorPosition(line, column) ==
    IF line = Undefined THEN NullObject
    ELSE [row |-> line - 1,
          character |-> IF column = Undefined THEN 0 ELSE column]

(***************************************************************************)
(* Bounds and the inputs drawn within them                                 *)
(***************************************************************************)
MaxSegs == 2        \* segments appended to a base path in an input path
MaxMappings == 2    \* entries of one server's pathMappings
MaxServers == 2     \* servers in the configured list
MaxNormLen == 5     \* characters of an input of normalizePath

SeqsUpTo(S, n) == UNION {[1..k -> S] : k \in 0..n}

RECURSIVE Concat(_)
Concat(ss) == IF ss = <<>> THEN <<>> ELSE ss[1] \o Concat(Tail(ss))

PathSegments == {<<"/", "a">>, <<"/", ".", ".">>, <<"/", ".">>}
Suffixes == {Concat(ss) : ss \in SeqsUpTo(PathSegments, MaxSegs)}

LocalPrefixes == {<<>>, <<"C", ":", "/", "p">>, <<"C", ":", "/", "p", "/", "a">>}
RemotePrefixes == {<<>>, <<"/", "r">>, <<"/", "r", "/", "a">>}
\* nested local prefixes, nested remote prefixes, and an empty path on
\* either side
Mappings ==
    {[localPath |-> <<"C", ":", "/", "p">>, remotePath |-> <<"/", "r">>],
     [localPath |-> <<"C", ":", "/", "p", "/", "a">>, remotePath |-> <<"/", "r">>],
     [localPath |-> <<"C", ":", "/", "p">>, remotePath |-> <<"/", "r", "/", "a">>],
     [localPath |-> <<>>, remotePath |-> <<"/", "r">>],
     [localPath |-> <<"C", ":", "/", "p">>, remotePath |-> <<>>]}
\* a legacy mapping that is in effect, and one getPathMappings leaves out
LegacyMappings ==
    {[localPath |-> <<"C", ":", "/", "p", "/", "a">>, remotePath |-> <<"/", "r">>],
     [localPath |-> <<"C", ":", "/", "p", "/", "a">>, remotePath |-> <<>>]}

ServerName(k) == <<"s", Digits[k + 1]>>

Servers ==
    {[name |-> ServerName(1), pathMappings |-> ms, smbMapping |-> legacy] :
        ms \in SeqsUpTo(Mappings, MaxMappings), legacy \in LegacyMappings}

LocalBases == {<<"C", ":", "/", "p">>, <<"c", ":", "/", "p">>,
               <<"c", ":", "\\", "p">>, <<"D", ":", "/", "p">>}
\* 'C:/pa' and 'C:/pa/a': paths beside the mapped directory C:/p whose
\* first component begins with its name
LocalNeighbours == {<<"C", ":", "/", "p", "a">>, <<"C", ":", "/", "p", "a", "/", "a">>}
LocalInputs ==
    {Null, <<>>} \cup {b \o x : b \in LocalBases, x \in Suffixes} \cup LocalNeighbours

RemoteBases == {<<"/", "r">>, <<"/", "x">>}
RemoteNeighbours == {<<"/", "r", "a">>, <<"/", "r", "a", "/", "a">>}
RemoteInputs ==
    {Null, <<>>} \cup {b \o x : b \in RemoteBases, x \in Suffixes} \cup RemoteNeighbours

MatchMappings ==
    [localPath : LocalPrefixes, remotePath : {<<"/", "r">>}]
        \cup {[localPath |-> <<"C", ":", "/", "p">>, remotePath |-> <<>>]}
MatchLegacyMappings ==
    {NullObject,
     [localPath |-> <<"C", ":", "/", "p", "/", "a">>, remotePath |-> <<"/", "r">>]}
ListedServers ==
    [pathMappings : SeqsUpTo(MatchMappings, MaxMappings),
     smbMapping : MatchLegacyMappings]
\* the configured lists: the server at position k is named ServerName(k)
ServerLists ==
    UNION {{[k \in 1..n |-> [name |-> ServerName(k),
                             pathMappings |-> f[k].pathMappings,
                             smbMapping |-> f[k].smbMapping]] :
               f \in [1..n -> ListedServers]} : n \in 0..MaxServers}

FileBases == {<<"C", ":", "/", "p">>, <<"D", ":", "/", "p">>}
FileInputs ==
    {Null} \cup {b \o x : b \in FileBases,
                          x \in {<<>>, <<"/", "a">>, <<"/", "a", "/", "a">>}}
           \cup LocalNeighbours

MaxFrags == 3       \* fragments concatenated into a scanned text

ScanFragments ==
    {<<"w", "w", "w", ".", "a">>, <<"h", "t", "t", "p", ":", "/", "/", "a">>,
     <<"/", "a">>, <<".", "/", "a">>, <<":", "1">>, <<" ">>, <<":">>, <<"a">>,
     <<"(", "1", ")">>, <<"a", ":", "1", ":">>, <<"e", "r", "r", "o", "r", ":">>}

\* 'see http://example.com/a/b.js and /usr/local/bin/app.js:10:2'
UrlExampleText ==
    <<"s", "e", "e", " ", "h", "t", "t", "p", ":", "/", "/", "e", "x", "a",
      "m", "p", "l", "e", ".", "c", "o", "m", "/", "a", "/", "b", ".", "j",
      "s", " ", "a", "n", "d", " ", "/", "u", "s", "r", "/", "l", "o", "c",
      "a", "l", "/", "b", "i", "n", "/", "a", "p", "p", ".", "j", "s", ":",
      "1", "0", ":", "2">>

\* 'app.cpp(42,15): error C2065'
CmakeExampleText ==
    <<"a", "p", "p", ".", "c", "p", "p", "(", "4", "2", ",", "1", "5", ")",
      ":", " ", "e", "r", "r", "o", "r", " ", "C", "2", "0", "6", "5">>

\* 'app.cpp:42:15: error: x'
MakeExampleText ==
    <<"a", "p", "p", ".", "c", "p", "p", ":", "4", "2", ":", "1", "5", ":",
      " ", "e", "r", "r", "o", "r", ":", " ", "x">>

\* 'Check the files at ./app.js and ../lib/utils.js'
RelativeExampleText ==
    <<"C", "h", "e", "c", "k", " ", "t", "h", "e", " ", "f", "i", "l", "e",
      "s", " ", "a", "t", " ", ".", "/", "a", "p", "p", ".", "j", "s", " ",
      "a", "n", "d", " ", ".", ".", "/", "l", "i", "b", "/", "u", "t", "i",
      "l", "s", ".", "j", "s">>

\* '../a.c:7:  warning: x' and 'see b.mk:3:1: note: y'
MakeWarningText ==
    <<".", ".", "/", "a", ".", "c", ":", "7", ":", " ", " ", "w", "a", "r",
      "n", "i", "n", "g", ":", " ", "x">>
MakeNoteText ==
    <<"s", "e", "e", " ", "b", ".", "m", "k", ":", "3", ":", "1", ":", " ",
      "n", "o", "t", "e", ":", " ", "y">>

ScanTexts ==
    {Concat(fs) : fs \in SeqsUpTo(ScanFragments, MaxFrags)}
        \cup {UrlExampleText, CmakeExampleText, MakeExampleText, RelativeExampleText,
              MakeWarningText, MakeNoteText}

NormChars == {"c", ":", "\\", "/", "a"}
NormInputs == {Null} \cup SeqsUpTo(NormChars, MaxNormLen)

(***************************************************************************)
(* Path translation: one operation is applied to an input drawn from the   *)
(* sets above; a follow-up step may feed its result to the next operation  *)
(***************************************************************************)
Idle == [op |-> "none"]

\* no openPathFromText call is running and the filesystem is empty
NoPipeline ==
    /\ pc = "idle"
    /\ frame = NullObject
    /\ effects = <<>>
    /\ files = {}
    /\ dirs = {}
    /\ workspaceRoot = Null

\* the settings hold no server and the configuration was never loaded
NoSettings ==
    /\ globalValue = <<>>
    /\ workspaceValue = <<>>
    /\ lastLoadTime = 0

\* no terminal is open or registered
NoTerminals ==
    /\ terminals = <<>>
    /\ terminalCounter = 0
    /\ windowTerminals = <<>>

InitTranslate ==
    /\ platform \in {"posix", "win32"}
    /\ serverList = <<>>
    /\ call = Idle
    /\ ret = Null
    /\ NoPipeline
    /\ NoSettings
    /\ NoTerminals

NormalizePath ==
    /\ call = Idle
    /\ \E p \in NormInputs \cup LocalInputs :
        /\ call' = [op |-> "normalizePath", p |-> p]
        /\ ret' = normalizePath(p)
        /\ UNCHANGED <<hostVars, platform, serverList, pipeVars>>

\* normalizePath applied to what normalizePath returned
NormalizeAgain ==
    /\ call.op = "normalizePath"
    /\ call' = [op |-> "normalizeAgain", p |-> ret, original |-> call.p]
    /\ ret' = normalizePath(ret)
    /\ UNCHANGED <<hostVars, platform, serverList, pipeVars>>

ConvertLocalPathToRemote ==
    /\ call = Idle
    /\ \E p \in LocalInputs, server \in Servers \cup {NullObject} :
        /\ call' = [op |-> "convertLocalPathToRemote", p |-> p, server |-> server]
        /\ ret' = convertLocalPathToRemote(p, server)
        /\ UNCHANGED <<hostVars, platform, serverList, pipeVars>>

ConvertRemotePathToLocal ==
    /\ call = Idle
    /\ \E p \in RemoteInputs, server \in Servers \cup {NullObject} :
        /\ call' = [op |-> "convertRemotePathToLocal", p |-> p, server |-> server]
        /\ ret' = convertRemotePathToLocal(platform, p, server)
        /\ UNCHANGED <<hostVars, platform, serverList, pipeVars>>

\* the remote path convertLocalPathToRemote returned, translated back
ConvertBack ==
    /\ call.op = "convertLocalPathToRemote"
    /\ call' = [op |-> "convertBack", p |-> call.p, server |-> call.server,
                remotePath |-> ret]
    /\ ret' = convertRemotePathToLocal(platform, ret, call.server)
    /\ UNCHANGED <<hostVars, platform, serverList, pipeVars>>

NextTranslate ==
    \/ NormalizePath
    \/ NormalizeAgain
    \/ ConvertLocalPathToRemote
    \/ ConvertRemotePathToLocal
    \/ ConvertBack

SpecTranslate == InitTranslate /\ [][NextTranslate]_vars

(***************************************************************************)
(* Properties of path translation                                          *)
(***************************************************************************)

\* the mappings of ms whose normalized localPath is a prefix of np
MatchingLocal(np, ms) ==
    {i \in DOMAIN ms : StartsWith(np, normalizePath(ms[i].localPath))}

\* the mappings of ms whose normalized remotePath is a prefix of np
MatchingRemote(np, ms) ==
    {i \in DOMAIN ms : StartsWith(np, normalizePath(ms[i].remotePath))}

\* the members of M with the longest normalized prefix on the given side
LongestLocal(M, ms) ==
    {i \in M : \A j \in M : Len(normalizePath(ms[j].localPath))
                              <= Len(normalizePath(ms[i].localPath))}
LongestRemote(M, ms) ==
    {i \in M : \A j \in M : Len(normalizePath(ms[j].remotePath))
                              <= Len(normalizePath(ms[i].remotePath))}

ValidMapping(m) == Truthy(m.localPath) /\ Truthy(m.remotePath)

ToRemoteCalled ==
    /\ call.op = "convertLocalPathToRemote"
    /\ Truthy(call.p)
    /\ call.server # NullObject

ToLocalCalled ==
    /\ call.op = "convertRemotePathToLocal"
    /\ Truthy(call.p)
    /\ call.server # NullObject

\* C1: with exactly one mapping {L, R}, both non-empty, and a local path p
\* whose normalized form starts with the normalized L, translating p to the
\* remote side and back gives normalizePath(p)
C1_RoundTrip ==
    (/\ call.op = "convertBack"
     /\ Truthy(call.p)
     /\ call.server # NullObject
     /\ Len(getPathMappings(call.server)) = 1
     /\ ValidMapping(getPathMappings(call.server)[1])
     /\ StartsWith(normalizePath(call.p),
                   normalizePath(getPathMappings(call.server)[1].localPath)))
    => ret = normalizePath(call.p)

C4_BestFit ==
    /\ ToRemoteCalled =>
         LET ms == getPathMappings(call.server)
             np == normalizePath(call.p)
             M == MatchingLocal(np, ms)
         IN (Cardinality(M) >= 2 /\ \A i \in DOMAIN ms : ValidMapping(ms[i])) =>
              \E i \in LongestLocal(M, ms) : ret = RemoteThroughMapping(np, ms[i])
    /\ ToLocalCalled =>
         LET ms == getPathMappings(call.server)
             np == normalizePath(call.p)
             M == MatchingRemote(np, ms)
         IN (Cardinality(M) >= 2 /\ \A i \in DOMAIN ms : ValidMapping(ms[i])) =>
              \E i \in LongestRemote(M, ms) :
                  ret = LocalThroughMapping(platform, np, ms[i])

\* C6: a translation is only ever produced through a mapping whose
\* localPath and remotePath are both non-empty
C6_InvalidMappingUnused ==
    /\ (ToRemoteCalled /\ ret # Null) =>
         LET ms == getPathMappings(call.server)
             np == normalizePath(call.p)
         IN \E i \in MatchingLocal(np, ms) :
                ValidMapping(ms[i]) /\ ret = RemoteThroughMapping(np, ms[i])
    /\ (ToLocalCalled /\ ret # Null) =>
         LET ms == getPathMappings(call.server)
             np == normalizePath(call.p)
         IN \E i \in MatchingRemote(np, ms) :
                ValidMapping(ms[i]) /\ ret = LocalThroughMapping(platform, np, ms[i])

\* C7: normalizePath applied to its own result returns that result
C7_Idempotent == call.op = "normalizeAgain" => ret = call.p

\* a drive-letter path written with backslashes was normalized twice
C7_Witness ==
    /\ call.op = "normalizeAgain"
    /\ call.original # Null
    /\ DriveLetterMatch(call.original)
    /\ call.p # call.original

\* a path starting with one letter, ':' and a separator
HasDrivePrefix(p) ==
    /\ Truthy(p)
    /\ Len(p) >= 3
    /\ IsLetter(p[1])
    /\ p[2] = ":"
    /\ IsPathSeparator(p[3])

\* C8: the drive letter of a path starting with a letter, ':' and either
\* separator comes out in upper case, so the path normalizes to the same
\* string as the path written with the upper-case drive letter
C8_DriveUppercased ==
    (call.op = "normalizePath" /\ HasDrivePrefix(call.p)) =>
        /\ ret[1] = ToUpperCase(call.p[1])
        /\ ret = normalizePath(<<ToUpperCase(call.p[1])>> \o Tail(call.p))

(***************************************************************************)
(* Server matching: findServerForPath on a configured server list          *)
(***************************************************************************)
InitMatch ==
    /\ platform = "posix"
    /\ serverList \in ServerLists
    /\ call = Idle
    /\ ret = NoServer
    /\ NoPipeline
    /\ globalValue = serverList
    /\ workspaceValue = <<>>
    /\ lastLoadTime = 1
    /\ NoTerminals

\* findServerForPath reads the list through getServerList, which merges the
\* legacy mappings into the cached server objects
FindServerForPath ==
    /\ call = Idle
    /\ \E p \in FileInputs :
        /\ call' = [op |-> "findServerForPath", p |-> p,
                    servers |-> IF Truthy(p) THEN getServerList(serverList)
                                ELSE serverList,
                    configured |-> serverList]
        /\ ret' = findServerForPath(p, getServerList(serverList))
        /\ serverList' = IF Truthy(p) THEN getServerList(serverList) ELSE serverList
        /\ UNCHANGED <<hostVars, platform, pipeVars>>

NextMatch == FindServerForPath

SpecMatch == InitMatch /\ [][NextMatch]_vars

\* the (server, mapping) pairs whose normalized localPath is a prefix of np
MatchingPairs(np, servers) ==
    {pair \in UNION {{<<k, i>> : i \in DOMAIN getPathMappings(servers[k])} :
                        k \in DOMAIN servers} :
        StartsWith(np, normalizePath(
            getPathMappings(servers[pair[1]])[pair[2]].localPath))}

PairPrefixLen(servers, pair) ==
    Len(normalizePath(getPathMappings(servers[pair[1]])[pair[2]].localPath))

AllMappingsValid(servers) ==
    \A k \in DOMAIN servers :
        \A i \in DOMAIN getPathMappings(servers[k]) :
            ValidMapping(getPathMappings(servers[k])[i])

\* C2: findServerForPath returns the server owning the matching pair with
\* the longest normalized local prefix, the earliest such server on a tie,
\* and null when no pair matches
C2_LongestPrefixServer ==
    (/\ call.op = "findServerForPath"
     /\ Truthy(call.p)
     /\ AllMappingsValid(call.servers)) =>
        LET np == normalizePath(call.p)
            P == MatchingPairs(np, call.servers)
            longest == {q \in P : \A r \in P :
                           PairPrefixLen(call.servers, r)
                             <= PairPrefixLen(call.servers, q)}
        IN IF P = {} THEN ret = NoServer
           ELSE ret = Min({q[1] : q \in longest})

(***************************************************************************)
(* Reference scanning: findPotentialPaths on a text                        *)
(***************************************************************************)
InitScan ==
    /\ platform = "posix"
    /\ serverList = <<>>
    /\ call = Idle
    /\ ret = <<>>
    /\ NoPipeline
    /\ NoSettings
    /\ NoTerminals

FindPotentialPaths ==
    /\ call = Idle
    /\ \E text \in ScanTexts :
        /\ call' = [op |-> "findPotentialPaths", text |-> text]
        /\ ret' = findPotentialPaths(text)
        /\ UNCHANGED <<hostVars, platform, serverList, pipeVars>>

NextScan == FindPotentialPaths

SpecScan == InitScan /\ [][NextScan]_vars

\* the 0-based indices a reference spans
Span(r) == r.startIndex..(r.startIndex + r.length - 1)

C10_OrderedByStartIndex ==
    call.op = "findPotentialPaths" =>
        \A j, k \in DOMAIN ret : j < k => ret[j].startIndex <= ret[k].startIndex

(***************************************************************************)
(* openPathFromText: the resolution pipeline, one step per await           *)
(***************************************************************************)
\* the connection of the end-to-end example, and the paths around it
ExampleLocal == <<"C", ":", "/", "P", "r", "o", "j", "e", "c", "t", "s">>
ExampleRemote == <<"/", "h", "o", "m", "e", "/", "u">>
ExampleFile == <<"C", ":", "/", "P", "r", "o", "j", "e", "c", "t", "s", "/", "a", "p", "p", ".", "j", "s">>
ExampleDir == <<"C", ":", "/", "P", "r", "o", "j", "e", "c", "t", "s", "/", "s", "r", "c">>
OtherRoot == <<"D", ":", "/", "w">>
OtherFile == <<"D", ":", "/", "w", "/", "a", "p", "p", ".", "j", "s">>
ExampleText == <<"/", "h", "o", "m", "e", "/", "u", "/", "a", "p", "p", ".", "j", "s", ":", "5">>

OpenServer(ms, cwd) ==
    [name |-> ServerName(1), pathMappings |-> ms, smbMapping |-> NullObject,
     currentWorkingDirectory |-> cwd]

OpenServers ==
    {NullObject,
     OpenServer(<<>>, Null),
     OpenServer(<<[localPath |-> ExampleLocal, remotePath |-> ExampleRemote]>>, Null),
     OpenServer(<<[localPath |-> ExampleLocal, remotePath |-> ExampleRemote]>>,
                ExampleRemote)}

OpenTexts ==
    {Null, <<>>,
     ExampleText,
     <<"/", "h", "o", "m", "e", "/", "u", "/", "a", "p", "p", ".", "j", "s">>,
     <<"/", "h", "o", "m", "e", "/", "u", "/", "a", "p", "p", ".", "j", "s", ":", "5", ":", "2">>,
     <<"/", "h", "o", "m", "e", "/", "u", "/", "a", "p", "p", ".", "j", "s", ":", "0">>,
     <<"/", "h", "o", "m", "e", "/", "u", "/", "s", "r", "c">>,
     <<"/", "h", "o", "m", "e", "/", "u">>,
     <<"/", "e", "t", "c", "/", "a", "p", "p", ".", "j", "s", ":", "5">>,
     <<".", "/", "a", "p", "p", ".", "j", "s", ":", "5">>,
     <<".", ".", "/", "w", "/", "a", "p", "p", ".", "j", "s">>,
     <<"a", "p", "p", ".", "j", "s", ":", "5", ":", "1", ":", " ", "e", "r", "r", "o", "r", ":", " ", "x">>,
     <<"h", "e", "l", "l", "o">>}

\* the local filesystems considered: <<files, dirs>>
Worlds ==
    {<<{}, {}>>,
     <<{ExampleFile, OtherFile}, {ExampleLocal, ExampleDir, OtherRoot}>>,
     <<{}, {ExampleLocal, ExampleFile}>>}

WorkspaceRoots == {Null, ExampleLocal, OtherRoot}

\* the quick pick's items, in the order the code lists them
FolderOptions ==
    <<"openInCurrentWindow", "openInNewWindow", "addToWorkspace", "openInFileBrowser">>

NoResult == [pending |-> TRUE]

InitOpen ==
    /\ platform \in {"posix", "win32"}
    /\ serverList = <<>>
    /\ call = Idle
    /\ ret = NoResult
    /\ pc = "idle"
    /\ frame = NullObject
    /\ effects = <<>>
    /\ \E w \in Worlds : files = w[1] /\ dirs = w[2]
    /\ workspaceRoot \in WorkspaceRoots
    /\ NoSettings
    /\ NoTerminals

\* return: the call is over with this result
Return(result) ==
    /\ pc' = "done"
    /\ ret' = result

\* the catch of openPathFromText lets the rejection escape to the caller
Caught_Rethrows(error) ==
    /\ pc' = "done"
    /\ ret' = [thrown |-> error]

\* lines 951-955: the catch around the whole body turns a rejection of an
\* awaited call into a result
Caught(error) == Return([success |-> FALSE, error |-> error])

\* await fileService.openFileWithOS(localPath), then return result
AwaitOpenFileWithOS(result) ==
    /\ pc' = "openFileWithOS"
    /\ frame' = [frame EXCEPT !.result = result]
    /\ effects' = Append(effects, [op |-> "openFileWithOS",
                                   path |-> frame.validPath.localPath])
    /\ UNCHANGED ret

\* lines 736-770: the synchronous part of the call, given what
\* processPathsFromText returned
Resolve(text, server, processedPaths) ==
    IF ~Truthy(text) \/ server = NullObject
    THEN /\ Return([success |-> FALSE, reason |-> "invalid arguments"])
         /\ UNCHANGED <<frame, effects>>
    ELSE IF Len(processedPaths) = 0
    THEN /\ Return([success |-> FALSE, reason |-> "no valid path found"])
         /\ UNCHANGED <<frame, effects>>
    ELSE IF FirstWithLocalPath(processedPaths) = 0
    THEN /\ Return([success |-> FALSE, reason |-> "cannot convert path",
                    paths |-> processedPaths])
         /\ UNCHANGED <<frame, effects>>
    ELSE /\ pc' = "checkPathExists"
         /\ frame' = [validPath |-> processedPaths[FirstWithLocalPath(processedPaths)],
                      openOption |-> "none",
                      result |-> NoResult]
         /\ effects' = <<[op |-> "checkPathExists",
                          path |-> processedPaths[FirstWithLocalPath(processedPaths)]
                                      .localPath]>>
         /\ UNCHANGED ret

\* lines 733-770: from the call to the await of checkPathExists
OpenPathFromText ==
    /\ pc = "idle"
    /\ call = Idle
    /\ \E text \in OpenTexts, server \in OpenServers :
        /\ call' = [op |-> "openPathFromText", text |-> text, server |-> server]
        /\ Resolve(text, server,
                   processPathsFromText(platform, text, server, workspaceRoot))
    /\ UNCHANGED <<hostVars, platform, serverList, files, dirs, workspaceRoot>>

\* lines 770-847, 929-931: checkPathExists answers; the branch is chosen
CheckPathExistsReturns ==
    /\ pc = "checkPathExists"
    /\ \E stat \in StatOutcomes(platform, frame.validPath.localPath, files, dirs) :
        LET validPath == frame.validPath
            isInWorkspace ==
                /\ Truthy(workspaceRoot)
                /\ StartsWith(normalizePath(validPath.localPath),
                              normalizePath(workspaceRoot))
        IN IF ~stat.exists
           THEN /\ pc' = "searchAndOpenFile"
                /\ effects' = Append(effects,
                      [op |-> "searchAndOpenFile",
                       fileName |-> Basename(platform, validPath.path),
                       line |-> validPath.line,
                       column |-> validPath.column])
           ELSE IF stat.isDirectory
           THEN IF isInWorkspace
                THEN /\ pc' = "revealInExplorer"
                     /\ effects' = Append(effects,
                           [op |-> "executeCommand",
                            command |-> "workbench.view.explorer"])
                ELSE /\ pc' = "showQuickPick"
                     /\ effects' = Append(effects,
                           [op |-> "showQuickPick", items |-> FolderOptions])
           ELSE /\ pc' = "openFileInEditor"
                /\ effects' = Append(effects,
                      [op |-> "openFileInEditor",
                       path |-> validPath.localPath,
                       line |-> validPath.line,
                       column |-> validPath.column,
                       position |-> CursorPosition(validPath.line, validPath.column)])
    /\ UNCHANGED <<hostVars, platform, serverList, call, ret, frame, files, dirs, workspaceRoot>>

\* lines 775-783, 951-955: searchAndOpenFile settles; a rejection (its own
\* catch awaits quickOpen again) lands in the catch of openPathFromText
SearchAndOpenFileReturns ==
    /\ pc = "searchAndOpenFile"
    /\ \E rejected \in BOOLEAN :
        IF rejected
        THEN Caught("rejected")
        ELSE Return([success |-> TRUE, action |-> "search", path |-> frame.validPath])
    /\ UNCHANGED <<hostVars, platform, serverList, call, frame, effects, files, dirs, workspaceRoot>>

\* lines 931-943: openFileInEditor answers true or false
OpenFileInEditorReturns ==
    /\ pc = "openFileInEditor"
    /\ \E success \in BOOLEAN :
        LET result == [success |-> TRUE, action |-> "openFile",
                       editorSuccess |-> success, path |-> frame.validPath]
        IN IF success
           THEN Return(result) /\ UNCHANGED <<frame, effects>>
           ELSE AwaitOpenFileWithOS(result)
    /\ UNCHANGED <<hostVars, platform, serverList, call, files, dirs, workspaceRoot>>

\* lines 802-826: the two explorer commands settle
RevealInExplorerReturns ==
    /\ pc = "revealInExplorer"
    /\ \E outcome \in {"ok", "viewRejected", "revealRejected"} :
        LET reveal == [op |-> "executeCommand", command |-> "revealInExplorer",
                       path |-> frame.validPath.localPath]
        IN CASE outcome = "ok" ->
                  /\ Return([success |-> TRUE, action |-> "revealInExplorer",
                             path |-> frame.validPath])
                  /\ effects' = Append(effects, reveal)
                  /\ UNCHANGED frame
             [] outcome = "viewRejected" ->
                  /\ pc' = "openFileWithOS"
                  /\ frame' = [frame EXCEPT !.result =
                        [success |-> TRUE, action |-> "openDirectoryInOS",
                         path |-> frame.validPath]]
                  /\ effects' = effects \o <<[op |-> "logger.error"],
                                         [op |-> "openFileWithOS",
                                          path |-> frame.validPath.localPath]>>
                  /\ UNCHANGED ret
             [] outcome = "revealRejected" ->
                  /\ pc' = "openFileWithOS"
                  /\ frame' = [frame EXCEPT !.result =
                        [success |-> TRUE, action |-> "openDirectoryInOS",
                         path |-> frame.validPath]]
                  /\ effects' = effects \o <<reveal, [op |-> "logger.error"],
                                         [op |-> "openFileWithOS",
                                          path |-> frame.validPath.localPath]>>
                  /\ UNCHANGED ret
    /\ UNCHANGED <<hostVars, platform, serverList, call, files, dirs, workspaceRoot>>

\* the command the chosen option runs, and the action names it reports
FolderCommand(openOption) ==
    CASE openOption = "openInCurrentWindow" ->
            [op |-> "executeCommand", command |-> "vscode.openFolder", newWindow |-> FALSE]
      [] openOption = "openInNewWindow" ->
            [op |-> "executeCommand", command |-> "vscode.openFolder", newWindow |-> TRUE]
      [] openOption = "addToWorkspace" ->
            [op |-> "updateWorkspaceFolders"]

\* the folder commands all report one action
FolderAction_OneForAll(openOption) == "openFolder"

FolderAction(openOption) ==
    CASE openOption = "openInCurrentWindow" -> "openFolderInCurrentWindow"
      [] openOption = "openInNewWindow" -> "openFolderInNewWindow"
      [] openOption = "addToWorkspace" -> "addToWorkspace"

FolderFailedAction(openOption) ==
    CASE openOption = "openInCurrentWindow" -> "openFolderInCurrentWindowFailed"
      [] openOption = "openInNewWindow" -> "openFolderInNewWindowFailed"
      [] openOption = "addToWorkspace" -> "addToWorkspaceFailed"

\* lines 831-863, 874, 895, 918-927: the quick pick settles
ShowQuickPickReturns ==
    /\ pc = "showQuickPick"
    /\ \E openOption \in Range(FolderOptions) \cup {"undefined", "rejected"} :
        CASE openOption = "rejected" ->
                /\ Caught("rejected")
                /\ UNCHANGED <<frame, effects>>
          [] openOption = "undefined" ->
                /\ Return([success |-> FALSE, action |-> "cancelled",
                           path |-> frame.validPath])
                /\ frame' = [frame EXCEPT !.openOption = openOption]
                /\ UNCHANGED effects
          [] openOption = "openInFileBrowser" ->
                /\ pc' = "openFileWithOS"
                /\ frame' = [frame EXCEPT
                       !.openOption = openOption,
                       !.result = [success |-> TRUE, action |-> "openDirectoryInOS",
                                   path |-> frame.validPath]]
                /\ effects' = Append(effects, [op |-> "openFileWithOS",
                                               path |-> frame.validPath.localPath])
                /\ UNCHANGED ret
          [] OTHER ->
                /\ pc' = "folderCommand"
                /\ frame' = [frame EXCEPT !.openOption = openOption]
                /\ effects' = Append(effects,
                      FolderCommand(openOption) @@ [path |-> frame.validPath.localPath])
                /\ UNCHANGED ret
    /\ UNCHANGED <<hostVars, platform, serverList, call, files, dirs, workspaceRoot>>

\* lines 852-917: the folder command settles, inside its own try
FolderCommandReturns ==
    /\ pc = "folderCommand"
    /\ \E rejected \in BOOLEAN :
        IF rejected
        THEN /\ Return([success |-> FALSE, error |-> "rejected",
                        action |-> FolderFailedAction(frame.openOption),
                        path |-> frame.validPath])
             /\ effects' = Append(effects, [op |-> "showErrorMessage"])
        ELSE /\ Return([success |-> TRUE, action |-> FolderAction(frame.openOption),
                        path |-> frame.validPath])
             /\ effects' = IF frame.openOption = "addToWorkspace"
                           THEN Append(effects, [op |-> "executeCommand",
                                          command |-> "workbench.view.explorer"])
                           ELSE effects
    /\ UNCHANGED <<hostVars, platform, serverList, call, frame, files, dirs, workspaceRoot>>

\* openFileWithOS answers true or false, never rejects; its caller ignores
\* the answer and returns the result it had prepared
OpenFileWithOSReturns ==
    /\ pc = "openFileWithOS"
    /\ \E opened \in BOOLEAN : Return(frame.result)
    /\ UNCHANGED <<hostVars, platform, serverList, call, frame, effects, files, dirs, workspaceRoot>>

NextOpen ==
    \/ OpenPathFromText
    \/ CheckPathExistsReturns
    \/ SearchAndOpenFileReturns
    \/ OpenFileInEditorReturns
    \/ RevealInExplorerReturns
    \/ ShowQuickPickReturns
    \/ FolderCommandReturns
    \/ OpenFileWithOSReturns

SpecOpen == InitOpen /\ [][NextOpen]_vars

\* the reference the running call settled on, and what the connection's
\* mapping makes of it: local prefix, then the remainder below the remote one
Called == call.op = "openPathFromText" /\ pc = "done"

RECURSIVE HasEffect(_, _)
HasEffect(es, e) == es # <<>> /\ (es[1] = e \/ HasEffect(Tail(es), e))

\* C5: a unix-style reference whose translated local path is a regular file
\* is opened in the editor at that path with the reference's line and
\* column, and the call reports action openFile; '/home/u/app.js:5' under
\* C:/Projects <-> /home/u opens C:/Projects/app.js at line 5
C5_EndToEndFileOpen ==
    /\ (/\ Called
        /\ call.text = ExampleText
        /\ call.server # NullObject
        /\ call.server.pathMappings # <<>>
        /\ ExampleFile \in files)
       => /\ "action" \in DOMAIN ret
          /\ ret.action = "openFile"
          /\ ret.path.line = 5
          /\ HasEffect(effects, [op |-> "openFileInEditor", path |-> ExampleFile,
                                 line |-> 5, column |-> Undefined,
                                 position |-> CursorPosition(5, Undefined)])
    /\ \A F \in files :
        (/\ Called
         /\ "path" \in DOMAIN ret
         /\ ret.path.isUnix
         /\ normalizePath(F) = ret.path.localPath)
        => /\ ret.action = "openFile"
           /\ HasEffect(effects, [op |-> "openFileInEditor", path |-> F,
                                  line |-> ret.path.line, column |-> ret.path.column,
                                  position |-> CursorPosition(ret.path.line,
                                                              ret.path.column)])

(***************************************************************************)
(* The make grammar, stated on the text                                    *)
(***************************************************************************)
\* the 1-based positions a..b of text all satisfy P
AllAt(text, a, b, P(_)) == \A j \in a..b : P(At(text, j))

\* the occurrences of token:<line>[:<column>]: in text that begin at the
\* start of the text or at a whitespace character: for each, the position s
\* where it begins, its token, its digits and the position q after its last ':'
MakeOccurrences(text) ==
    LET n == Len(text)
        Tokens == {<<1, 1>>} \cup {<<s, s + 1>> : s \in {j \in 1..n : IsSpace(text[j])}}
        Colons(t) == {c \in (t + 1)..n : text[c] = ":" /\ AllAt(text, t, c - 1, IsPathChar)}
        LineEnds(c) == {e \in (c + 2)..n : text[e] = ":" /\ AllAt(text, c + 1, e - 1, IsDigit)}
    IN UNION {UNION {UNION {
         {[s |-> st[1], path |-> SubSeq(text, st[2], c - 1),
           lineStr |-> SubSeq(text, c + 1, e - 1), colStr |-> Null, q |-> e + 1]}
         \cup
         {[s |-> st[1], path |-> SubSeq(text, st[2], c - 1),
           lineStr |-> SubSeq(text, c + 1, e - 1),
           colStr |-> SubSeq(text, e + 1, f - 1), q |-> f + 1] : f \in LineEnds(e)}
         : e \in LineEnds(c)} : c \in Colons(st[2])} : st \in Tokens}

\* what follows position q - 1: end of text
AtEndOfText(text, q) == q = Len(text) + 1

\* whitespace, then one of error|warning|note, then ':'
WordFollows(text, q) ==
    \E w \in 1..Len(text) : \E x \in MakeWords :
        /\ AllAt(text, q, q + w - 1, IsSpace)
        /\ LiteralAt(text, q + w, x \o <<":">>)

\* the position after whitespace, word and ':' following q - 1
AfterWord(text, q) ==
    CHOOSE e \in 1..(Len(text) + 1) : \E w \in 1..Len(text) : \E x \in MakeWords :
        /\ AllAt(text, q, q + w - 1, IsSpace)
        /\ LiteralAt(text, q + w, x \o <<":">>)
        /\ e = q + w + Len(x) + 1

\* the occurrence o is what the make reference r reports
ReportedAs(o, r) ==
    /\ r.type = "make"
    /\ r.startIndex = o.s - 1
    /\ r.path = o.path
    /\ r.line = ParseInt(o.lineStr)
    /\ r.column = IF o.colStr = Null THEN Undefined ELSE ParseInt(o.colStr)

MakeReferences == {k \in DOMAIN ret : ret[k].type = "make"}

Scanned == call.op = "findPotentialPaths"

\* C11 as stated: every occurrence of token:<line>[:<column>]: directly
\* followed by whitespace, by the end of the text or by one of the words
\* error|warning|note is reported as a make reference with its line and column
C11_MakeGrammarAsStated ==
    Scanned =>
        \A o \in MakeOccurrences(call.text) :
            (/\ \/ AtEndOfText(call.text, o.q)
                \/ IsSpace(At(call.text, o.q))
                \/ \E x \in MakeWords : LiteralAt(call.text, o.q, x)
             /\ (o.s - 1)..(o.q - 2) \cap UrlIndices(call.text, 1) = {})
            => \E k \in MakeReferences : ReportedAs(o, ret[k])

\* C11: the make references are exactly the occurrences of
\* token:<line>[:<column>]: that begin at the start of the text or at a
\* whitespace character and are followed by the end of the text or by
\* whitespace, one of error|warning|note and ':', that touch no URL and do
\* not begin inside an earlier make reference; line and column are the parsed
\* integers, and 'app.cpp:42:15: error: x' yields the one reference app.cpp,
\* line 42, column 15
C11_MakeGrammar ==
    Scanned =>
        /\ \A k \in MakeReferences :
             \E o \in MakeOccurrences(call.text) :
                /\ ReportedAs(o, ret[k])
                /\ \/ AtEndOfText(call.text, o.q) /\ ret[k].length = o.q - o.s
                   \/ /\ WordFollows(call.text, o.q)
                      /\ ret[k].length = AfterWord(call.text, o.q) - o.s
        /\ \A o \in MakeOccurrences(call.text) :
             (/\ AtEndOfText(call.text, o.q) \/ WordFollows(call.text, o.q)
              /\ LET e == IF AtEndOfText(call.text, o.q) THEN o.q
                          ELSE AfterWord(call.text, o.q)
                 IN (o.s - 1)..(e - 2) \cap UrlIndices(call.text, 1) = {}
              /\ ~\E k \in MakeReferences :
                    /\ ret[k].startIndex < o.s - 1
                    /\ o.s - 1 < ret[k].startIndex + ret[k].length)
             => \E k \in MakeReferences : ReportedAs(o, ret[k])
        /\ call.text = MakeExampleText =>
             /\ Len(ret) = 1
             /\ ret[1].type = "make"
             /\ ret[1].path = SubSeq(MakeExampleText, 1, 7)
             /\ ret[1].line = 42
             /\ ret[1].column = 15

\* a text with an occurrence followed by whitespace and a word, reported
\* with its line, next to a reference of another grammar
C11_Witness ==
    /\ Scanned
    /\ \E o \in MakeOccurrences(call.text) :
          /\ IsSpace(At(call.text, o.q))
          /\ WordFollows(call.text, o.q)
          /\ \E k \in MakeReferences : ReportedAs(o, ret[k])
    /\ \E k \in DOMAIN ret : ret[k].type # "make"

(***************************************************************************)
(* The result of openPathFromText                                          *)
(***************************************************************************)
\* the call is between two awaits
Awaiting == call.op = "openPathFromText" /\ pc # "done"

\* C12: whatever the text, the server and the answers of checkPathExists,
\* openFileInEditor, the explorer commands, the quick pick and the filename
\* search (rejections included), a call of openPathFromText that is over
\* has returned an object whose success field is true or false, nothing
\* was thrown to the caller, and a call that is not over can go on
C12_AlwaysAResult ==
    /\ Called => /\ "success" \in DOMAIN ret
                 /\ ret.success \in BOOLEAN
                 /\ "thrown" \notin DOMAIN ret
    /\ Awaiting => ENABLED NextOpen

\* a rejection of an awaited collaborator came back as success = false
C12_Witness ==
    /\ Called
    /\ "error" \in DOMAIN ret
    /\ ret.success = FALSE
    /\ \E k \in DOMAIN effects : effects[k].op \in {"searchAndOpenFile", "showQuickPick"}

\* the path handed to checkPathExists is not there: every answer stat can
\* give for it, a failure included, is exists = false
TargetAbsent ==
    /\ effects # <<>>
    /\ effects[1].op = "checkPathExists"
    /\ \A stat \in StatOutcomes(platform, effects[1].path, files, dirs) : ~stat.exists

\* C13: when the translated local path does not exist, or its existence
\* check fails, the call has triggered the filename search with the bare
\* filename of the reference path and its line and column, and the result
\* carries action search; success = false without an action never comes back
C13_AbsentTargetSearches ==
    (Called /\ TargetAbsent) =>
        /\ Len(effects) = 2
        /\ effects[2] = [op |-> "searchAndOpenFile",
                         fileName |-> Basename(platform, frame.validPath.path),
                         line |-> frame.validPath.line,
                         column |-> frame.validPath.column]
        /\ "action" \in DOMAIN ret
        /\ ret.action = "search"

(***************************************************************************)
(* SpecLink: a click on a terminal link (ui/terminal-links.js)             *)
(***************************************************************************)
\* terminal lines the link provider is asked about
LinkLines ==
    {ExampleText,
     <<"/", "h", "o", "m", "e", "/", "u", "/", "s", "r", "c">>,
     <<"/", "h", "o", "m", "e", "/", "u">>,
     <<"/", "e", "t", "c", "/", "a", "p", "p", ".", "j", "s", ":", "5">>,
     <<"/", "e", "t", "c", "/">>,
     <<".", "/", "a", "p", "p", ".", "j", "s", ":", "5">>,
     <<"a", "p", "p", ".", "j", "s", ":", "5", ":", "1", ":", " ", "e", "r", "r", "o", "r", ":", " ", "x">>,
     <<"l", "s", " ", "/", "e", "t", "c", "/", " ", "/", "h", "o", "m", "e", "/", "u", "/", "a", "p", "p", ".", "j", "s">>}

\* provideTerminalLinks: link.data of the link made for one reference
LinkData(pathInfo) ==
    [filePath |-> pathInfo.path, line |-> pathInfo.line, column |-> pathInfo.column]

\* filePath.split(/[/\\]/).pop()
SplitPop(filePath) == LastSegment(filePath, {"/", "\\"})

\* const fileName = filePath ? filePath.split(/[/\\]/).pop() : null;
\* if (fileName) await fileService.searchAndOpenFile(fileName, line, column)
SearchByFileName(data) ==
    IF Truthy(data.filePath) /\ Truthy(SplitPop(data.filePath))
    THEN /\ pc' = "linkSearch"
         /\ effects' = Append(effects, [op |-> "searchAndOpenFile",
                                        fileName |-> SplitPop(data.filePath),
                                        line |-> data.line,
                                        column |-> data.column])
    ELSE /\ pc' = "linkDone"
         /\ UNCHANGED effects

\* lines 59-121: the handler with the server its four lookups found
\* (NullObject: none), up to the first await
Clicked(data, server) ==
    /\ call' = [op |-> "handleTerminalLink", data |-> data, server |-> server]
    /\ IF server = NullObject
       THEN SearchByFileName(data) /\ UNCHANGED <<ret, frame>>
       ELSE Resolve(data.filePath, server,
                    processPathsFromText(platform, data.filePath, server, workspaceRoot))

HandleTerminalLink ==
    /\ pc = "idle"
    /\ call = Idle
    /\ \E text \in LinkLines, server \in OpenServers :
         \E k \in DOMAIN findPotentialPaths(text) :
            Clicked(LinkData(findPotentialPaths(text)[k]), server)
    /\ UNCHANGED <<hostVars, platform, serverList, files, dirs, workspaceRoot>>

\* lines 121-144: openPathFromText has returned its result
OpenPathFromTextReturns ==
    /\ call.op = "handleTerminalLink"
    /\ pc = "done"
    /\ IF ~ret.success
       THEN SearchByFileName(call.data)
       ELSE pc' = "linkDone" /\ UNCHANGED effects
    /\ UNCHANGED <<hostVars, platform, serverList, call, ret, frame, files, dirs, workspaceRoot>>

\* lines 145-151: the handler's search settles; a rejection is caught and
\* the quick open box is shown
LinkSearchReturns ==
    /\ pc = "linkSearch"
    /\ \E rejected \in BOOLEAN :
         effects' = IF rejected
                    THEN Append(effects, [op |-> "executeCommand",
                                          command |-> "workbench.action.quickOpen",
                                          fileName |-> SplitPop(call.data.filePath)])
                    ELSE effects
    /\ pc' = "linkDone"
    /\ UNCHANGED <<hostVars, platform, serverList, call, ret, frame, files, dirs, workspaceRoot>>

NextLink ==
    \/ HandleTerminalLink
    \/ CheckPathExistsReturns
    \/ SearchAndOpenFileReturns
    \/ OpenFileInEditorReturns
    \/ RevealInExplorerReturns
    \/ ShowQuickPickReturns
    \/ FolderCommandReturns
    \/ OpenFileWithOSReturns
    \/ OpenPathFromTextReturns
    \/ LinkSearchReturns

SpecLink == InitOpen /\ [][NextLink]_vars

\* the click has been handled
LinkHandled == call.op = "handleTerminalLink" /\ pc = "linkDone"

\* the connection gives the clicked reference no local path
NoLocalPath ==
    /\ call.server # NullObject
    /\ FirstWithLocalPath(processPathsFromText(platform, call.data.filePath,
                                               call.server, workspaceRoot)) = 0

\* the filename search was started for fileName
Searched(fileName) ==
    \E k \in DOMAIN effects : /\ effects[k].op = "searchAndOpenFile"
                              /\ effects[k].fileName = fileName

\* C14: when the connection gives the reference no local path (no mapping
\* prefix matches, or there are no mappings), the resolution ends in the
\* filename search with the bare filename of the reference path, the name
\* the translated-but-absent case searches for
C14_NoTranslationSearches ==
    (LinkHandled /\ NoLocalPath) =>
        Searched(Basename(platform, call.data.filePath))

(***************************************************************************)
(* The directory branch of openPathFromText                                *)
(***************************************************************************)
\* the path handed to checkPathExists is a directory
TargetIsDirectory ==
    /\ effects # <<>>
    /\ effects[1].op = "checkPathExists"
    /\ FsName(platform, effects[1].path) \in dirs

\* the directory p is the workspace root or lies below it
UnderWorkspaceRoot(p) ==
    /\ Truthy(workspaceRoot)
    /\ \/ FsName(platform, p) = FsName(platform, workspaceRoot)
       \/ StartsWith(FsName(platform, p), FsName(platform, workspaceRoot) \o <<"/">>)

OpsDone(op) == {k \in DOMAIN effects : effects[k].op = op}

\* the action each answer to the prompt stands for
ChoiceAction ==
    [openInCurrentWindow |-> "openFolderInCurrentWindow",
     openInNewWindow |-> "openFolderInNewWindow",
     addToWorkspace |-> "addToWorkspace",
     openInFileBrowser |-> "openDirectoryInOS"]

\* what the chosen option has done to the directory
ChoiceEffect(openOption, p) ==
    IF openOption = "openInFileBrowser" THEN [op |-> "openFileWithOS", path |-> p]
    ELSE FolderCommand(openOption) @@ [path |-> p]

HasNoMappings(server) ==
    /\ server.pathMappings = <<>>
    /\ server.smbMapping = NullObject \/ ~ValidMapping(server.smbMapping)

\* the drive of a path that begins with a letter and ':', in upper case;
\* Null for any other path
DriveOf(p) ==
    IF Truthy(p) /\ Len(p) >= 2 /\ IsLetter(p[1]) /\ p[2] = ":"
    THEN <<ToUpperCase(p[1])>>
    ELSE Null

\* the local path is on a drive, and every mapping of the server on another
OnForeignDrive(p, server) ==
    /\ DriveOf(p) # Null
    /\ \A i \in DOMAIN getPathMappings(server) :
          /\ DriveOf(getPathMappings(server)[i].localPath) # Null
          /\ DriveOf(getPathMappings(server)[i].localPath) # DriveOf(p)

\* nothing to translate with: no path, no server, no mappings, or no
\* mapping whose prefix on the side asked for begins the normalized path
NothingMatches(p, server, Matching(_, _)) ==
    \/ ~Truthy(p)
    \/ server = NullObject
    \/ HasNoMappings(server)
    \/ Matching(normalizePath(p), getPathMappings(server)) = {}

\* C16: convertLocalPathToRemote and convertRemotePathToLocal return null
\* for a null or empty path, a null server, a server without mappings and a
\* path no mapping prefix matches; a local path on a drive other than that
\* of every mapping gets null
C16_NullWhenNothingMatches ==
    /\ (call.op = "convertLocalPathToRemote"
            /\ NothingMatches(call.p, call.server, MatchingLocal)) => ret = Null
    /\ (call.op = "convertRemotePathToLocal"
            /\ NothingMatches(call.p, call.server, MatchingRemote)) => ret = Null
    /\ (ToRemoteCalled /\ OnForeignDrive(call.p, call.server)) => ret = Null

\* a path on drive D translated with a server all of whose mappings, at
\* least one, are on drive C
C16_Witness ==
    /\ ToRemoteCalled
    /\ getPathMappings(call.server) # <<>>
    /\ OnForeignDrive(call.p, call.server)
    /\ DriveOf(call.p) = <<"D">>
    /\ ret = Null

(***************************************************************************)
(* The configuration across calls                                          *)
(***************************************************************************)
\* C17: the calls leave the configuration alone: after findServerForPath
\* every server of the list has the pathMappings and the smbMapping it had
\* before the call
C17_ConfigurationReadOnly ==
    call.op = "findServerForPath" =>
        /\ Len(serverList) = Len(call.configured)
        /\ \A k \in DOMAIN serverList :
              /\ serverList[k].pathMappings = call.configured[k].pathMappings
              /\ serverList[k].smbMapping = call.configured[k].smbMapping

(***************************************************************************)
(* SpecConfig: the server list in the settings (adapters/config-loader.js) *)
(***************************************************************************)
ConfigNames == {"s1", "s2"}
ConfigHosts == {"h1", "h2"}

ConfigServer(name, host) ==
    [name |-> name, host |-> host, username |-> "u",
     pathMappings |-> <<>>, smbMapping |-> NullObject]

\* the servers handed to updateServer, and to addServer, which is also
\* given one without a name
ValidServers == {ConfigServer(n, h) : n \in ConfigNames, h \in ConfigHosts}
AddedServers == ValidServers \cup {ConfigServer("", "h1")}

\* configTarget.serverList.some(s => s.name === name)
HasName(list, name) == \E k \in DOMAIN list : list[k].name = name

\* configTarget.serverList.findIndex(s => s.name === name), 0 for -1
FindIndex(list, name) ==
    IF HasName(list, name) THEN Min({k \in DOMAIN list : list[k].name = name}) ELSE 0

\* list.splice(index, 1)
Splice(list, index) == SubSeq(list, 1, index - 1) \o SubSeq(list, index + 1, Len(list))

\* config.inspect('config').workspaceValue or .globalValue
ConfigTarget(saveToWorkspace) == IF saveToWorkspace THEN workspaceValue ELSE globalValue

\* return false before anything is written
Refused ==
    /\ ret' = FALSE
    /\ UNCHANGED <<globalValue, workspaceValue, lastLoadTime, serverList>>

\* updateConfig('config', configTarget, global): config.update goes through
\* and the cache is cleared, or it rejects
updateConfig(list, global, updated) ==
    IF updated
    THEN /\ IF global
            THEN globalValue' = list /\ UNCHANGED workspaceValue
            ELSE workspaceValue' = list /\ UNCHANGED globalValue
         /\ lastLoadTime' = 0
         /\ serverList' = <<>>
         /\ ret' = TRUE
    ELSE Refused

\* getConfig, then getServerList on its serverList: the cache if it is
\* there and younger than CACHE_TTL, else the two lists of the settings
CachedOrLoaded(expired) ==
    IF lastLoadTime = 1 /\ ~expired THEN serverList ELSE globalValue \o workspaceValue

GetServerList ==
    /\ \E expired \in BOOLEAN :
         /\ serverList' = getServerList(CachedOrLoaded(expired))
         /\ ret' = getServerList(CachedOrLoaded(expired))
    /\ lastLoadTime' = 1
    /\ call' = [op |-> "getServerList"]
    /\ UNCHANGED <<platform, pipeVars, globalValue, workspaceValue,
                   terminals, terminalCounter, windowTerminals>>

AddServer ==
    /\ \E server \in AddedServers, saveToWorkspace \in BOOLEAN, updated \in BOOLEAN :
         /\ call' = [op |-> "addServer", server |-> server,
                     saveToWorkspace |-> saveToWorkspace,
                     before |-> <<globalValue, workspaceValue>>]
         /\ IF server.name = "" \/ server.host = "" \/ server.username = ""
            THEN Refused
            ELSE IF HasName(ConfigTarget(saveToWorkspace), server.name)
            THEN Refused
            ELSE updateConfig(Append(ConfigTarget(saveToWorkspace), server),
                              ~saveToWorkspace, updated)
    /\ UNCHANGED <<platform, pipeVars, terminals, terminalCounter, windowTerminals>>

UpdateServer ==
    /\ \E name \in ConfigNames, updatedServer \in ValidServers,
          saveToWorkspace \in BOOLEAN, updated \in BOOLEAN :
         /\ call' = [op |-> "updateServer", name |-> name, server |-> updatedServer,
                     saveToWorkspace |-> saveToWorkspace,
                     before |-> <<globalValue, workspaceValue>>]
         /\ IF FindIndex(ConfigTarget(saveToWorkspace), name) = 0
            THEN Refused
            ELSE IF /\ updatedServer.name # name
                    /\ HasName(ConfigTarget(saveToWorkspace), updatedServer.name)
            THEN Refused
            ELSE updateConfig(
                    [ConfigTarget(saveToWorkspace) EXCEPT
                        ![FindIndex(ConfigTarget(saveToWorkspace), name)] = updatedServer],
                    ~saveToWorkspace, updated)
    /\ UNCHANGED <<platform, pipeVars, terminals, terminalCounter, windowTerminals>>

DeleteServer ==
    /\ \E name \in ConfigNames, deleteFromWorkspace \in BOOLEAN, updated \in BOOLEAN :
         /\ call' = [op |-> "deleteServer", name |-> name,
                     saveToWorkspace |-> deleteFromWorkspace,
                     before |-> <<globalValue, workspaceValue>>]
         /\ IF FindIndex(ConfigTarget(deleteFromWorkspace), name) = 0
            THEN Refused
            ELSE updateConfig(
                    Splice(ConfigTarget(deleteFromWorkspace),
                           FindIndex(ConfigTarget(deleteFromWorkspace), name)),
                    ~deleteFromWorkspace, updated)
    /\ UNCHANGED <<platform, pipeVars, terminals, terminalCounter, windowTerminals>>

InitConfig ==
    /\ platform = "posix"
    /\ serverList = <<>>
    /\ call = Idle
    /\ ret = FALSE
    /\ NoPipeline
    /\ NoSettings
    /\ NoTerminals

NextConfig ==
    \/ GetServerList
    \/ AddServer
    \/ UpdateServer
    \/ DeleteServer

SpecConfig == InitConfig /\ [][NextConfig]_vars

NoDuplicateNames(list) ==
    \A i, j \in DOMAIN list : i # j => list[i].name # list[j].name

\* the call would put a second server of that name into the merged list
WouldDuplicate ==
    \/ /\ call.op = "addServer"
       /\ HasName(call.before[1] \o call.before[2], call.server.name)
    \/ /\ call.op = "updateServer"
       /\ call.server.name # call.name
       /\ HasName(call.before[1] \o call.before[2], call.server.name)

\* C18: after any addServer, updateServer and deleteServer calls on the two
\* scopes, the merged list getServerList returns has no two servers of one
\* name, and an add or a rename that would make a duplicate returns false
\* and leaves the settings as they were
C18_UniqueNames ==
    /\ call.op = "getServerList" => NoDuplicateNames(ret)
    /\ WouldDuplicate => /\ ret = FALSE
                         /\ <<globalValue, workspaceValue>> = call.before

(***************************************************************************)
(* SpecTerminals: the terminal registry (services/terminal-manager.js)     *)
(* and connectToServer (services/ssh-service.js)                           *)
(*                                                                         *)
(* A terminal is its position in windowTerminals, which holds for every    *)
(* terminal created so far "open", "disposed" (dispose was called, the     *)
(* close event is still to come) or "closed".  The registry is the Map in  *)
(* insertion order; the key `${name}:SSH:${n}` is [base |-> name, n |-> n], *)
(* a plain name has n = 0.                                                 *)
(***************************************************************************)
MaxTerminals == 3

\* the server lists found in the settings
TerminalConfigs ==
    {<<>>,
     <<ConfigServer("s1", "h1")>>,
     <<ConfigServer("s1", "h1"), ConfigServer("s2", "h1")>>,
     <<ConfigServer("s1", "h1"), ConfigServer("s2", "")>>}

\* the names connectToServer is asked for; "s3" is configured nowhere
RequestedNames == {"s1", "s2", "s3"}

LocalTerminalNames == {"Local Terminal"}

\* this.terminals.set(key, entry)
MapSet(map, entry) ==
    IF \E k \in DOMAIN map : map[k].name = entry.name
    THEN [k \in DOMAIN map |-> IF map[k].name = entry.name THEN entry ELSE map[k]]
    ELSE Append(map, entry)

\* addTerminal(name, terminal, { type: 'ssh', server }): the entry it sets
SshEntry(server, terminal, counter) ==
    [name |-> [base |-> server.name, n |-> counter],
     terminal |-> terminal,
     type |-> "ssh",
     serverName |-> server.name]

\* addTerminal(name, terminal, { type: 'local' })
LocalEntry(name, terminal) ==
    [name |-> [base |-> name, n |-> 0],
     terminal |-> terminal,
     type |-> "local",
     serverName |-> ""]

\* findTerminalsByServerName: positions of the matching entries, in order
MatchesServerName(entry, serverName) ==
    /\ entry.type = "ssh"
    /\ \/ entry.serverName = serverName
       \/ entry.name = [base |-> serverName, n |-> 0]

\* findTerminalsByServerName finding a terminal only when it is the newest of
\* several entries
findTerminalsByServerName_NewestOnly(map, serverName) ==
    {k \in DOMAIN map : MatchesServerName(map[k], serverName) /\ k = Len(map) /\ k > 1}

findTerminalsByServerName(map, serverName) ==
    {k \in DOMAIN map : MatchesServerName(map[k], serverName)}

\* serverList.find(s => s.name === serverName), NullObject if none
FindServer(list, serverName) ==
    IF HasName(list, serverName) THEN list[FindIndex(list, serverName)] ELSE NullObject

\* createSshTerminal goes on only with a name, a host and a user name
ValidForSsh(server) ==
    server.name # "" /\ server.host # "" /\ server.username # ""

Show(terminal) == [op |-> "terminal.show", terminal |-> terminal]

\* throw error, after logger.error and showErrorMessage
Throws(message) ==
    /\ ret' = [thrown |-> message]
    /\ effects' = <<[op |-> "showErrorMessage"]>>
    /\ UNCHANGED <<terminals, terminalCounter, windowTerminals>>

\* lines 60-72, openTerminal and createSshTerminal: an existing terminal is
\* shown, or a new one is created, registered and shown
ShowOrCreate(server, serverName, force, created) ==
    IF ~force /\ findTerminalsByServerName(terminals, serverName) # {}
    THEN /\ ret' = [success |-> TRUE,
                    terminal |-> terminals[Min(findTerminalsByServerName(
                                                terminals, serverName))].terminal,
                    isNew |-> FALSE]
         /\ effects' = <<Show(terminals[Min(findTerminalsByServerName(
                                            terminals, serverName))].terminal)>>
         /\ UNCHANGED <<terminals, terminalCounter, windowTerminals>>
    ELSE IF ~ValidForSsh(server) \/ ~created
    THEN Throws("cannot create SSH terminal")
    ELSE /\ windowTerminals' = Append(windowTerminals, "open")
         /\ effects' = <<Show(Len(windowTerminals) + 1), Show(Len(windowTerminals) + 1)>>
         /\ terminalCounter' = terminalCounter + 1
         /\ terminals' = MapSet(terminals,
                SshEntry(server, Len(windowTerminals) + 1, terminalCounter + 1))
         /\ ret' = [success |-> TRUE, terminal |-> Len(windowTerminals) + 1,
                    isNew |-> TRUE]

\* connectToServer(serverName, force); sshFound is what commandExistsSync
\* answers, created whether vscode.window.createTerminal went through
ConnectToServer ==
    /\ Len(windowTerminals) < MaxTerminals
    /\ \E serverName \in RequestedNames, force \in BOOLEAN,
          sshFound \in BOOLEAN, created \in BOOLEAN, expired \in BOOLEAN :
         /\ call' = [op |-> "connectToServer", serverName |-> serverName,
                     force |-> force, sshFound |-> sshFound, created |-> created,
                     before |-> [terminals |-> terminals,
                                 windowTerminals |-> windowTerminals]]
         /\ IF ~sshFound
            THEN /\ Throws("ssh not found")
                 /\ UNCHANGED <<serverList, lastLoadTime>>
            ELSE /\ serverList' = getServerList(CachedOrLoaded(expired))
                 /\ lastLoadTime' = 1
                 /\ IF FindServer(getServerList(CachedOrLoaded(expired)),
                                  serverName) = NullObject
                    THEN Throws("server not found")
                    ELSE ShowOrCreate(FindServer(getServerList(CachedOrLoaded(expired)),
                                                 serverName),
                                      serverName, force, created)
    /\ UNCHANGED <<platform, pc, frame, files, dirs, workspaceRoot,
                   globalValue, workspaceValue>>

\* createLocalTerminal(name)
CreateLocalTerminal ==
    /\ Len(windowTerminals) < MaxTerminals
    /\ \E name \in LocalTerminalNames :
         /\ call' = [op |-> "createLocalTerminal", name |-> name]
         /\ windowTerminals' = Append(windowTerminals, "open")
         /\ terminals' = MapSet(terminals, LocalEntry(name, Len(windowTerminals) + 1))
         /\ ret' = [terminal |-> Len(windowTerminals) + 1]
    /\ UNCHANGED <<platform, serverList, pipeVars, globalValue, workspaceValue,
                   lastLoadTime, terminalCounter>>

\* the key of the first entry for terminal t, NullObject if t is in no entry
RemovedKey(map, t) ==
    IF \E k \in DOMAIN map : map[k].terminal = t
    THEN map[Min({k \in DOMAIN map : map[k].terminal = t})].name
    ELSE NullObject

\* this.terminals.delete(name) taking the oldest entry of the registry
DeleteFirst_DropsOldest(map, t) ==
    IF map = <<>> THEN <<>> ELSE Tail(map)

\* the registry without its first entry for terminal t
RECURSIVE DeleteFirst(_, _)
DeleteFirst(map, t) ==
    IF map = <<>> THEN <<>>
    ELSE IF map[1].terminal = t THEN Tail(map)
    ELSE <<map[1]>> \o DeleteFirst(Tail(map), t)

\* handleTerminalClose(terminal): VS Code reports that a terminal, disposed
\* by the extension or closed by the user, is gone
HandleTerminalClose ==
    /\ \E t \in DOMAIN windowTerminals :
         /\ windowTerminals[t] # "closed"
         /\ call' = [op |-> "handleTerminalClose", terminal |-> t,
                     removedKey |-> RemovedKey(terminals, t),
                     before |-> [terminals |-> terminals,
                                 windowTerminals |-> windowTerminals]]
         /\ windowTerminals' = [windowTerminals EXCEPT ![t] = "closed"]
         /\ terminals' = DeleteFirst(terminals, t)
    /\ ret' = NoResult
    /\ UNCHANGED <<platform, serverList, pipeVars, globalValue, workspaceValue,
                   lastLoadTime, terminalCounter>>

\* the terminals of the first n entries of the registry
Held(map, n) == {map[k].terminal : k \in 1..n}

\* dispose() called on the terminals of D
Disposed(D) ==
    [t \in DOMAIN windowTerminals |->
        IF t \in D /\ windowTerminals[t] = "open" THEN "disposed"
        ELSE windowTerminals[t]]

\* closeAllTerminals: the entries are disposed in order and the registry is
\* cleared; failing is the position of the entry whose dispose throws, 0
\* if none does: the catch logs the error, the loop and the clear are over
closeAllTerminals(failing) ==
    IF failing = 0
    THEN /\ windowTerminals' = Disposed(Held(terminals, Len(terminals)))
         /\ terminals' = <<>>
    ELSE /\ windowTerminals' = Disposed(Held(terminals, failing - 1))
         /\ UNCHANGED terminals

CloseAllTerminals ==
    /\ \E failing \in 0..Len(terminals) :
         /\ call' = [op |-> "closeAllTerminals", failing |-> failing,
                     before |-> [terminals |-> terminals,
                                 windowTerminals |-> windowTerminals]]
         /\ closeAllTerminals(failing)
    /\ ret' = NoResult
    /\ UNCHANGED <<platform, serverList, pipeVars, globalValue, workspaceValue,
                   lastLoadTime, terminalCounter>>

InitTerminals ==
    /\ platform = "posix"
    /\ serverList = <<>>
    /\ call = Idle
    /\ ret = NoResult
    /\ NoPipeline
    /\ globalValue \in TerminalConfigs
    /\ workspaceValue = <<>>
    /\ lastLoadTime = 0
    /\ NoTerminals

NextTerminals ==
    \/ ConnectToServer
    \/ CreateLocalTerminal
    \/ HandleTerminalClose
    \/ CloseAllTerminals

SpecTerminals == InitTerminals /\ [][NextTerminals]_vars

(***************************************************************************)
(* Terminal reuse                                                          *)
(***************************************************************************)
Connected == call.op = "connectToServer"

\* the settings of SpecTerminals, which no action of it writes
Configured == globalValue \o workspaceValue

\* the registry entries, before the call, that are SSH terminals of the
\* server asked for
ExistingFor(map, serverName) ==
    {k \in DOMAIN map : map[k].type = "ssh" /\ map[k].serverName = serverName}

NothingCreated ==
    /\ terminals = call.before.terminals
    /\ windowTerminals = call.before.windowTerminals

Raised == "thrown" \in DOMAIN ret /\ NothingCreated

\* the first existing terminal is shown and returned, nothing is created
Reused ==
    /\ ExistingFor(call.before.terminals, call.serverName) # {}
    /\ ret = [success |-> TRUE,
              terminal |-> call.before.terminals[
                  Min(ExistingFor(call.before.terminals, call.serverName))].terminal,
              isNew |-> FALSE]
    /\ effects = <<Show(ret.terminal)>>
    /\ NothingCreated

\* exactly one terminal more in the window, registered last as an SSH
\* terminal of the server, shown and returned
CreatedOne ==
    /\ Len(windowTerminals) = Len(call.before.windowTerminals) + 1
    /\ SubSeq(windowTerminals, 1, Len(call.before.windowTerminals))
           = call.before.windowTerminals
    /\ windowTerminals[Len(windowTerminals)] = "open"
    /\ Len(terminals) = Len(call.before.terminals) + 1
    /\ SubSeq(terminals, 1, Len(call.before.terminals)) = call.before.terminals
    /\ terminals[Len(terminals)].type = "ssh"
    /\ terminals[Len(terminals)].serverName = call.serverName
    /\ terminals[Len(terminals)].terminal = Len(windowTerminals)
    /\ ret = [success |-> TRUE, terminal |-> Len(windowTerminals), isNew |-> TRUE]
    /\ Show(ret.terminal) \in Range(effects)

ReuseCase ==
    /\ ~call.force
    /\ ExistingFor(call.before.terminals, call.serverName) # {}

\* C19 as worded: connectToServer reuses the existing SSH terminal of the
\* server when force is false, creates exactly one otherwise, and raises
\* for an unknown server name, creating nothing
C19_ReuseAsStated ==
    Connected =>
        IF ~HasName(Configured, call.serverName) THEN Raised
        ELSE IF ReuseCase THEN Reused
        ELSE CreatedOne

\* the server can be connected to: the ssh command is found
CanConnect == call.sshFound

\* a terminal can be created for the server: its host and user name are
\* set and the editor creates the terminal
CanCreate ==
    /\ ValidForSsh(FindServer(Configured, call.serverName))
    /\ call.created

\* C19: with the ssh command found, connectToServer reuses the first
\* existing SSH terminal of a configured server when force is false
\* (shown, isNew false, nothing created); without one, or with force, it
\* creates, registers and shows exactly one SSH terminal (isNew true) when
\* the server has a host and a user name and the editor creates the
\* terminal; in every other case, an unknown server name among them, it
\* raises an error and creates nothing
C19_TerminalReuse ==
    Connected =>
        IF ~CanConnect \/ ~HasName(Configured, call.serverName) THEN Raised
        ELSE IF ReuseCase THEN Reused
        ELSE IF CanCreate THEN CreatedOne
        ELSE Raised

\* a call without force reused the first of two terminals of the server
C19_Witness ==
    /\ Connected
    /\ ~call.force
    /\ Cardinality(ExistingFor(call.before.terminals, call.serverName)) >= 2
    /\ Reused

(***************************************************************************)
(* closeAllTerminals                                                       *)
(***************************************************************************)
\* C20: after closeAllTerminals every terminal the registry held has been
\* disposed and the registry is empty, also when a dispose failed
C20_AllClosedRegistryEmpty ==
    call.op = "closeAllTerminals" =>
        /\ terminals = <<>>
        /\ \A k \in DOMAIN call.before.terminals :
              windowTerminals[call.before.terminals[k].terminal] # "open"

(***************************************************************************)
(* The registry after a terminal has closed                                *)
(***************************************************************************)
\* findTerminalByName(name): the terminal under the key, Undefined for null
findTerminalByName(map, name) ==
    IF \E k \in DOMAIN map : map[k].name = name
    THEN map[CHOOSE k \in DOMAIN map : map[k].name = name].terminal
    ELSE Undefined

\* getAllSSHTerminals(): the positions of the SSH entries
getAllSSHTerminals(map) == {k \in DOMAIN map : map[k].type = "ssh"}

\* the entries of the registry that do not hold terminal t, in order
RECURSIVE Others(_, _)
Others(map, t) ==
    IF map = <<>> THEN <<>>
    ELSE IF map[1].terminal = t THEN Others(Tail(map), t)
    ELSE <<map[1]>> \o Others(Tail(map), t)

TerminalClosed == call.op = "handleTerminalClose"

\* C21: after handleTerminalClose(t) no registry entry refers to t: its
\* key is looked up in vain, it is in no result of
\* findTerminalsByServerName and not among getAllSSHTerminals; every
\* other entry is kept as it was, in its place
C21_ClosedTerminalForgotten ==
    TerminalClosed =>
        /\ \A k \in DOMAIN terminals : terminals[k].terminal # call.terminal
        /\ call.removedKey # NullObject =>
               findTerminalByName(terminals, call.removedKey) = Undefined
        /\ \A serverName \in RequestedNames :
               \A k \in findTerminalsByServerName(terminals, serverName) :
                   terminals[k].terminal # call.terminal
        /\ \A k \in getAllSSHTerminals(terminals) :
               terminals[k].terminal # call.terminal
        /\ terminals = Others(call.before.terminals, call.terminal)

\* a registered SSH terminal that was not the oldest entry has closed
C21_Witness ==
    /\ TerminalClosed
    /\ call.removedKey # NullObject
    /\ call.before.terminals[1].terminal # call.terminal
    /\ Len(call.before.terminals) >= 2
    /\ \E k \in DOMAIN call.before.terminals :
          /\ call.before.terminals[k].terminal = call.terminal
          /\ call.before.terminals[k].type = "ssh"

(***************************************************************************)
(* The separators of a normalized path                                     *)
(***************************************************************************)
\* the positions at which two '/' stand side by side
DoubledAt(n) == {i \in 1..(Len(n) - 1) : n[i] = "/" /\ n[i + 1] = "/"}

\* C22: the result of normalizePath for a non-empty input has no
\* backslash, ends with a separator, and has two separators side by side
\* at its very beginning only, where there are exactly two of them
C22_SeparatorsCollapsed ==
    (call.op = "normalizePath" /\ Truthy(call.p)) =>
        /\ \A i \in DOMAIN ret : ret[i] # "\\"
        /\ ret[Len(ret)] = "/"
        /\ DoubledAt(ret) \subseteq {1}

(***************************************************************************)
(* Where a unix reference begins                                           *)
(***************************************************************************)
\* the characters that end a path token: [:\s()"'], and the text's start
IsDelimiter(c) ==
    c = EndOfText \/ IsSpace(c) \/ c \in {":", "(", ")", "\"", "'"}

\* C23: every unix reference begins with '/' or '~/' and starts a token:
\* the character before it, if any, is whitespace or a delimiter
C23_UnixStartsAToken ==
    Scanned =>
        \A k \in DOMAIN ret :
            ret[k].type = "unix" =>
                /\ ret[k].isUnix
                /\ IsDelimiter(At(call.text, ret[k].startIndex))

(***************************************************************************)
(* SpecProcess: processPathsFromText on texts with relative references     *)
(***************************************************************************)
EtcDir == <<"/", "e", "t", "c">>

\* the connection with and without mappings, its working directory unknown,
\* inside the mapped tree and outside of it
ProcessServers ==
    {NullObject,
     OpenServer(<<>>, Null),
     OpenServer(<<>>, ExampleRemote),
     OpenServer(<<[localPath |-> ExampleLocal, remotePath |-> ExampleRemote]>>, Null),
     OpenServer(<<[localPath |-> ExampleLocal, remotePath |-> ExampleRemote]>>,
                ExampleRemote),
     OpenServer(<<[localPath |-> ExampleLocal, remotePath |-> ExampleRemote]>>,
                ExampleRemote \o <<"/", "s", "r", "c">>),
     OpenServer(<<[localPath |-> ExampleLocal, remotePath |-> ExampleRemote]>>,
                EtcDir)}

\* './app.js:5', '../w/app.js', './src/../app.js', 'see ./a ../b',
\* '../a.c:7:  warning: x', a unix reference and texts without a reference
ProcessTexts ==
    {Null, <<>>,
     <<".", "/", "a", "p", "p", ".", "j", "s", ":", "5">>,
     <<".", ".", "/", "w", "/", "a", "p", "p", ".", "j", "s">>,
     <<".", "/", "s", "r", "c", "/", ".", ".", "/", "a", "p", "p", ".", "j", "s">>,
     <<"s", "e", "e", " ", ".", "/", "a", " ", ".", ".", "/", "b">>,
     MakeWarningText,
     ExampleText,
     <<"h", "e", "l", "l", "o">>}

InitProcess ==
    /\ platform \in {"posix", "win32"}
    /\ serverList = <<>>
    /\ call = Idle
    /\ ret = NoResult
    /\ pc = "idle"
    /\ frame = NullObject
    /\ effects = <<>>
    /\ files = {}
    /\ dirs = {}
    /\ workspaceRoot \in WorkspaceRoots
    /\ NoSettings
    /\ NoTerminals

ProcessPathsFromText ==
    /\ call = Idle
    /\ \E text \in ProcessTexts, server \in ProcessServers :
        /\ call' = [op |-> "processPathsFromText", text |-> text, server |-> server]
        /\ ret' = [paths |-> processPathsFromText(platform, text, server, workspaceRoot)]
    /\ UNCHANGED <<hostVars, platform, serverList, pipeVars>>

NextProcess == ProcessPathsFromText

SpecProcess == InitProcess /\ [][NextProcess]_vars

Processed == call.op = "processPathsFromText"

\* a reference written with './' or '../'
RelativeStyle(ref) ==
    StartsWith(ref.path, <<".", "/">>) \/ StartsWith(ref.path, <<".", ".", "/">>)

\* what the working directory of the connection gives for a reference:
\* the directory joined with it, translated; Null without a directory
ViaWorkingDirectory(ref) ==
    IF Truthy(call.server.currentWorkingDirectory)
    THEN convertRemotePathToLocal(platform,
             PosixJoin(call.server.currentWorkingDirectory, ref.path), call.server)
    ELSE Null

\* C24: a reference starting with './' or '../' gets the local path its
\* working directory gives, if it gives one; else, with a workspace root,
\* the root joined with the reference, untranslated; else none
C24_RelativeResolutionOrder ==
    Processed =>
        \A k \in DOMAIN ret.paths :
            RelativeStyle(ret.paths[k]) =>
                ret.paths[k].localPath =
                    IF Truthy(ViaWorkingDirectory(ret.paths[k]))
                    THEN ViaWorkingDirectory(ret.paths[k])
                    ELSE IF Truthy(workspaceRoot)
                    THEN PathJoin(platform, workspaceRoot,
                                  StripDotSlash(ret.paths[k].path))
                    ELSE Null

\* with a workspace root known, one relative reference was resolved through
\* the working directory and another one, which leaves the mapped tree,
\* against the workspace root
C24_Witness ==
    /\ Processed
    /\ Truthy(workspaceRoot)
    /\ \E k \in DOMAIN ret.paths :
          /\ RelativeStyle(ret.paths[k])
          /\ Truthy(ViaWorkingDirectory(ret.paths[k]))
          /\ ret.paths[k].localPath = ViaWorkingDirectory(ret.paths[k])
          /\ ret.paths[k].localPath
                # PathJoin(platform, workspaceRoot, StripDotSlash(ret.paths[k].path))
    /\ \E k \in DOMAIN ret.paths :
          /\ RelativeStyle(ret.paths[k])
          /\ ~Truthy(ViaWorkingDirectory(ret.paths[k]))
          /\ Truthy(ret.paths[k].localPath)

(***************************************************************************)
(* The cursor position of an opened file                                   *)
(***************************************************************************)
\* the calls that open a file at a position of the reference
OpensAtPosition(e) ==
    e.op \in {"openFileInEditor", "searchAndOpenFile"} /\ e.line # Undefined

\* the position the call places the cursor at
PositionOf(e) ==
    IF e.op = "openFileInEditor" THEN e.position
    ELSE CursorPosition(e.line, e.column)

\* C25: a file opened at line l and column c gets the cursor at row
\* l - 1, which is not negative, and at character c - 1, character 0
\* when no column was given, on both ways of opening
C25_CursorConvention ==
    \A k \in DOMAIN effects :
        OpensAtPosition(effects[k]) =>
            /\ PositionOf(effects[k]).row = effects[k].line - 1
            /\ PositionOf(effects[k]).row >= 0
            /\ PositionOf(effects[k]).character =
                   IF effects[k].column = Undefined THEN 0
                   ELSE effects[k].column - 1

(***************************************************************************)
(* The position a clicked link opens                                       *)
(***************************************************************************)
\* C26: the file a clicked link resolves to is opened at the line and the
\* column of the link, those the scan found for the reference
C26_ClickKeepsPosition ==
    call.op = "handleTerminalLink" =>
        \A k \in DOMAIN effects :
            effects[k].op = "openFileInEditor" =>
                /\ effects[k].line = call.data.line
                /\ effects[k].column = call.data.column

(***************************************************************************)
(* A dismissed directory prompt                                            *)
(***************************************************************************)
\* openPathFromText has returned the cancelled result to the link handler
PromptCancelled ==
    /\ call.op = "handleTerminalLink"
    /\ pc \in {"done", "linkSearch", "linkDone"}
    /\ "action" \in DOMAIN ret
    /\ ret.action = "cancelled"

\* C27: after the directory prompt was dismissed the prompt is the last
\* thing the click has done: no search and no command follow it
C27_CancelEndsClick ==
    PromptCancelled =>
        /\ ~ret.success
        /\ effects[Len(effects)].op = "showQuickPick"

(***************************************************************************)
(* Translations and the mapped tree                                        *)
(***************************************************************************)
\* C28: a translation that is not null begins with the normalized prefix,
\* on the side translated to, of the mapping that matched: the first
\* mapping whose normalized prefix begins the normalized input
C28_StaysInsideMappedTree ==
    /\ (ToLocalCalled /\ ret # Null) =>
         /\ MatchingRemote(normalizePath(call.p), getPathMappings(call.server)) # {}
         /\ StartsWith(ret,
                normalizePath(getPathMappings(call.server)[
                    Min(MatchingRemote(normalizePath(call.p),
                                       getPathMappings(call.server)))].localPath))
    /\ (ToRemoteCalled /\ ret # Null) =>
         /\ MatchingLocal(normalizePath(call.p), getPathMappings(call.server)) # {}
         /\ StartsWith(ret,
                normalizePath(getPathMappings(call.server)[
                    Min(MatchingLocal(normalizePath(call.p),
                                      getPathMappings(call.server)))].remotePath))

(***************************************************************************)
(* SpecBoundary: the four functions that test a mapping prefix             *)
(***************************************************************************)
\* [s1: C:/p <-> /r] and [s1: C:/p/a <-> /r/a, s2: C:/p <-> /r with the
\* legacy mapping C:/p/a <-> /r]
BoundaryLists ==
    {<<[name |-> ServerName(1),
        pathMappings |-> <<[localPath |-> <<"C", ":", "/", "p">>,
                            remotePath |-> <<"/", "r">>]>>,
        smbMapping |-> NullObject]>>,
     <<[name |-> ServerName(1),
        pathMappings |-> <<[localPath |-> <<"C", ":", "/", "p", "/", "a">>,
                            remotePath |-> <<"/", "r", "/", "a">>]>>,
        smbMapping |-> NullObject],
       [name |-> ServerName(2),
        pathMappings |-> <<[localPath |-> <<"C", ":", "/", "p">>,
                            remotePath |-> <<"/", "r">>]>>,
        smbMapping |-> [localPath |-> <<"C", ":", "/", "p", "/", "a">>,
                        remotePath |-> <<"/", "r">>]]>>}

InitBoundary ==
    /\ platform \in {"posix", "win32"}
    /\ serverList \in BoundaryLists
    /\ call = Idle
    /\ ret = Null
    /\ NoPipeline
    /\ globalValue = serverList
    /\ workspaceValue = <<>>
    /\ lastLoadTime = 1
    /\ NoTerminals

FindServerForPathDetailed ==
    /\ call = Idle
    /\ \E p \in FileInputs :
        /\ call' = [op |-> "findServerForPathDetailed", p |-> p,
                    servers |-> IF Truthy(p) THEN getServerList(serverList)
                                ELSE serverList,
                    configured |-> serverList]
        /\ ret' = findServerForPathDetailed(p, getServerList(serverList))
        /\ serverList' = IF Truthy(p) THEN getServerList(serverList) ELSE serverList
        /\ UNCHANGED <<hostVars, platform, pipeVars>>

NextBoundary ==
    \/ ConvertLocalPathToRemote
    \/ ConvertRemotePathToLocal
    \/ FindServerForPath
    \/ FindServerForPathDetailed

SpecBoundary == InitBoundary /\ [][NextBoundary]_vars

\* the components of a path: what stands between its separators, with the
\* drive letter in upper case
NonEmpty(x) == x # <<>>
Components(p) ==
    SelectSeq(SplitOn(ReplaceBackslashes(
                 IF Truthy(p) /\ Len(p) >= 2 /\ p[2] = ":"
                 THEN <<ToUpperCase(p[1])>> \o Tail(p) ELSE p),
              <<>>, {"/"}), NonEmpty)

\* path is the directory prefix itself or lies below it
AtOrBelow(path, prefix) ==
    /\ Len(Components(prefix)) <= Len(Components(path))
    /\ SubSeq(Components(path), 1, Len(Components(prefix))) = Components(prefix)

\* C29: a mapping whose prefix begins the input as a string has the input
\* at or below its directory, so every function that tests the prefix
\* answers through a mapping the input lies at or below: the translations
\* on their side of the mapping, findServerForPath with a server that has
\* such a mapping, findServerForPathDetailed with such a mapping
C29_ComponentBoundaries ==
    /\ ToRemoteCalled =>
          /\ \A i \in MatchingLocal(normalizePath(call.p), getPathMappings(call.server)) :
                 AtOrBelow(call.p, getPathMappings(call.server)[i].localPath)
          /\ ret # Null =>
                 \E i \in DOMAIN getPathMappings(call.server) :
                     AtOrBelow(call.p, getPathMappings(call.server)[i].localPath)
    /\ ToLocalCalled =>
          /\ \A i \in MatchingRemote(normalizePath(call.p), getPathMappings(call.server)) :
                 AtOrBelow(call.p, getPathMappings(call.server)[i].remotePath)
          /\ ret # Null =>
                 \E i \in DOMAIN getPathMappings(call.server) :
                     AtOrBelow(call.p, getPathMappings(call.server)[i].remotePath)
    /\ (call.op = "findServerForPath" /\ Truthy(call.p) /\ ret # NoServer) =>
          \E i \in DOMAIN getPathMappings(call.servers[ret]) :
              AtOrBelow(call.p, getPathMappings(call.servers[ret])[i].localPath)
    /\ (call.op = "findServerForPathDetailed" /\ Truthy(call.p) /\ ret # NullObject) =>
          AtOrBelow(call.p,
              getPathMappings(call.servers[ret.server])[ret.mapping].localPath)

\* C:/pa/a was looked up with the directory C:/p mapped, and neither the
\* translation nor the server lookup took the mapping
C29_Witness ==
    \/ /\ ToRemoteCalled
       /\ call.p = <<"C", ":", "/", "p", "a", "/", "a">>
       /\ \E i \in DOMAIN getPathMappings(call.server) :
             getPathMappings(call.server)[i].localPath = <<"C", ":", "/", "p">>
       /\ \A i \in DOMAIN getPathMappings(call.server) :
             Truthy(getPathMappings(call.server)[i].localPath)
       /\ ret = Null
    \/ /\ call.op = "findServerForPathDetailed"
       /\ call.p = <<"C", ":", "/", "p", "a", "/", "a">>
       /\ ret = NullObject

(***************************************************************************)
(* The span of a reference                                                 *)
(***************************************************************************)
\* C30: the text from startIndex on begins with the path of the
\* reference, and the span reaches at least to the end of the path
C30_SpanBeginsWithPath ==
    Scanned =>
        \A k \in DOMAIN ret :
            /\ ret[k].length >= Len(ret[k].path)
            /\ SubSeq(call.text, ret[k].startIndex + 1,
                      ret[k].startIndex + Len(ret[k].path)) = ret[k].path

====
